---- MODULE Spec2Model ----
(***************************************************************************)
(* Storage-lifecycle and usage-quota subsystem of the meal tracker:        *)
(* the quota ledger (checkAndIncrementUsage, getRemainingRequests), the    *)
(* analysis handlers that consult it (analyzeMeal,                         *)
(* analyzeNaturalLanguageMeal) and the retention sweeper                   *)
(* (cleanupUserImages).                                                    *)
(*                                                                         *)
(* Time is counted in minutes since the epoch.  A day key, which the code  *)
(* renders as the ISO date "YYYY-MM-DD", is represented by the number of   *)
(* the UTC day it denotes (days since the epoch); the rendering is         *)
(* injective on day numbers.                                               *)
(***************************************************************************)
EXTENDS Integers, Sequences, FiniteSets, TLC

\* ------------------------------------------------------------------ bounds
MaxCalls == 11          \* quota checks issued in one behaviour of the ledger
MaxTicks == 2           \* the clock stops after this many steps
MaxRequests == 3        \* requests issued in one behaviour that starts
                        \* from counters already in use
MaxAttempts == 1        \* analysis requests issued in one behaviour
MaxFaults == 1          \* store faults injected in one behaviour
NumCalls == 3           \* concurrent checkAndIncrementUsage invocations
MaxRuns == 2            \* sweeps issued in one behaviour
NumSweeps == 2          \* sweep invocations followed step by step

\* --------------------------------------------------------------- constants
DAILY_REQUEST_LIMIT == 10
MinutesPerDay == 24 * 60

Users == {"u1", "u2"}
NoAuth == "null"
NoDoc == [exists |-> FALSE]

\* getTimezoneOffset() of the machine, in minutes (UTC minus local time):
\* UTC+2, UTC, UTC-5
TzOffsets == {0 - 120, 0, 300}
StartNow == MinutesPerDay
TickSteps == {720}
MaxNow == StartNow + MaxTicks * 720
DayKeys == 0 .. ((MaxNow \div MinutesPerDay) + 1)

Min(a, b) == IF a < b THEN a ELSE b
Max(a, b) == IF a > b THEN a ELSE b

VARIABLES
    now,        \* the wall clock, minutes since the epoch
    tzOffset,   \* getTimezoneOffset() of the machine running the functions
    usage,      \* usage_tracking/{uid}/daily/{dateKey} documents
    calls,      \* history: quota checks issued per (uid, dateKey)
    admits,     \* history: quota checks that returned true per (uid, dateKey)
    last,       \* observable outcome of the most recent operation
    budget,     \* requests that may still be issued in this behaviour
    faults,     \* history: store faults injected so far
    txn,        \* the in-flight checkAndIncrementUsage invocations
    slots0,     \* history: the counters before the invocations started
    entries,    \* users/{uid}/entries/{id} documents
    blobs,      \* paths of the objects in the storage bucket
    runs,       \* history: sweeps issued so far
    userDocs,   \* users/{uid} documents
    sweeps      \* the in-flight sweep invocations

clockVars == <<now, tzOffset>>
ledgerVars == <<usage, calls, admits>>
concVars == <<txn, slots0>>
sweepVars == <<entries, blobs, runs, userDocs, sweeps>>
histVars == <<budget, faults>>
vars == <<now, tzOffset, usage, calls, admits, last, budget, faults,
          txn, slots0, entries, blobs, runs, userDocs, sweeps>>

\* ------------------------------------------------------------ quota ledger

\* new Date(t): the UTC day number of instant t (floor division)
UtcDay(t) == t \div MinutesPerDay

\* getDateKeyForUser(): now.getTime() + now.getTimezoneOffset() * 60000,
\* truncated to the UTC day boundary and rendered as a date
getDateKeyForUser(t, off) == UtcDay(t + off)

\* usageDoc.exists ? usageDoc.data()?.count || 0 : 0
CurrentCount(d) == IF d.exists THEN d.count ELSE 0

NoOutcome == [op |-> "none"]

\* a ceiling test written with > instead of >=
RunTransaction_OffByOne(userId, dateKey, txnFails) ==
    LET currentCount == CurrentCount(usage[userId][dateKey])
    IN  IF txnFails \/ currentCount > DAILY_REQUEST_LIMIT
        THEN [rejected |-> txnFails, value |-> FALSE, usage |-> usage,
              pre |-> currentCount]
        ELSE [rejected |-> FALSE, value |-> TRUE,
              usage |-> [usage EXCEPT ![userId][dateKey] =
                            [exists |-> TRUE, count |-> currentCount + 1,
                             userId |-> userId, dateKey |-> dateKey]],
              pre |-> currentCount]

\* a counter whose count carries over from the user's earlier days
RunTransaction_CarryOver(userId, dateKey, txnFails) ==
    LET Earlier == {CurrentCount(usage[userId][k]) : k \in {d \in DayKeys : d <= dateKey}}
        currentCount == CHOOSE c \in Earlier : \A e \in Earlier : e <= c
    IN  IF txnFails \/ currentCount >= DAILY_REQUEST_LIMIT
        THEN [rejected |-> txnFails, value |-> FALSE, usage |-> usage,
              pre |-> currentCount]
        ELSE [rejected |-> FALSE, value |-> TRUE,
              usage |-> [usage EXCEPT ![userId][dateKey] =
                            [exists |-> TRUE, count |-> currentCount + 1,
                             userId |-> userId, dateKey |-> dateKey]],
              pre |-> currentCount]

\* db.runTransaction(...) as one atomic read-modify-write of the counter
\* document; txnFails: the store makes runTransaction reject (nothing is
\* written), otherwise the transaction body's value is returned
RunTransaction(userId, dateKey, txnFails) ==
    LET usageDoc == usage[userId][dateKey]
        currentCount == CurrentCount(usageDoc)
        newCount == currentCount + 1
    IN  IF txnFails
        THEN [rejected |-> TRUE, value |-> FALSE, usage |-> usage,
              pre |-> currentCount]
        ELSE IF currentCount >= DAILY_REQUEST_LIMIT
        THEN [rejected |-> FALSE, value |-> FALSE, usage |-> usage,
              pre |-> currentCount]
        ELSE [rejected |-> FALSE, value |-> TRUE,
              usage |-> [usage EXCEPT ![userId][dateKey] =
                            [exists |-> TRUE, count |-> newCount,
                             userId |-> userId, dateKey |-> dateKey]],
              pre |-> currentCount]

\* checkAndIncrementUsage without its catch clause: the rejection of the
\* transaction reaches the caller
CheckAndIncrementUsage_NoCatch(userId, txnFails) ==
    LET dateKey == getDateKeyForUser(now, tzOffset)
        t == RunTransaction(userId, dateKey, txnFails)
    IN  [usage |-> t.usage, ret |-> t.value, threw |-> t.rejected,
         failed |-> t.rejected, key |-> dateKey, pre |-> t.pre]

\* checkAndIncrementUsage: try { return await runTransaction } catch
\* { return false }
CheckAndIncrementUsage(userId, txnFails) ==
    LET dateKey == getDateKeyForUser(now, tzOffset)
        t == RunTransaction(userId, dateKey, txnFails)
    IN  [usage |-> t.usage,
         ret |-> IF t.rejected THEN FALSE ELSE t.value,
         threw |-> FALSE,
         failed |-> t.rejected,
         key |-> dateKey,
         pre |-> t.pre]

\* the environment injects a store fault into the current operation
Inject(f) ==
    /\ f => faults < MaxFaults
    /\ faults' = faults + (IF f THEN 1 ELSE 0)

Record(userId, r) ==
    /\ calls' = [calls EXCEPT ![userId][r.key] = @ + 1]
    /\ admits' = [admits EXCEPT ![userId][r.key] = @ + (IF r.ret THEN 1 ELSE 0)]

\* a direct invocation of the internal function
QuotaCheck(userId, txnFails) ==
    /\ budget > 0
    /\ budget' = budget - 1
    /\ LET r == CheckAndIncrementUsage(userId, txnFails)
       IN /\ usage' = r.usage
          /\ Record(userId, r)
          /\ last' = [op |-> "checkAndIncrementUsage", uid |-> userId,
                      key |-> r.key, ret |-> r.ret, failed |-> r.failed,
                      pre |-> r.pre, threw |-> r.threw, at |-> now]
    /\ Inject(txnFails)
    /\ UNCHANGED <<clockVars, concVars, sweepVars>>

\* a read that initialises the counter document it does not find
GetRemainingRequests_Creates(auth, getFails) ==
    /\ auth # NoAuth /\ ~getFails
    /\ LET dateKey == getDateKeyForUser(now, tzOffset)
           currentCount == CurrentCount(usage[auth][dateKey])
       IN /\ usage' = [usage EXCEPT ![auth][dateKey] =
                          [exists |-> TRUE, count |-> currentCount,
                           userId |-> auth, dateKey |-> dateKey]]
          /\ last' = [op |-> "getRemainingRequests", uid |-> auth,
                      err |-> "none", at |-> now,
                      remaining |-> Max(0, DAILY_REQUEST_LIMIT - currentCount),
                      total |-> DAILY_REQUEST_LIMIT,
                      used |-> currentCount,
                      dateKey |-> dateKey]
    /\ UNCHANGED <<clockVars, calls, admits, histVars, concVars, sweepVars>>

\* the callable getRemainingRequests; getFails: usageRef.get() rejects
GetRemainingRequests(auth, getFails) ==
    /\ IF auth = NoAuth
       THEN last' = [op |-> "getRemainingRequests", uid |-> auth,
                     err |-> "unauthenticated"]
       ELSE LET dateKey == getDateKeyForUser(now, tzOffset)
                currentCount == CurrentCount(usage[auth][dateKey])
            IN IF getFails
               THEN last' = [op |-> "getRemainingRequests", uid |-> auth,
                             err |-> "internal"]
               ELSE last' = [op |-> "getRemainingRequests", uid |-> auth,
                             err |-> "none", at |-> now,
                             remaining |-> Max(0, DAILY_REQUEST_LIMIT - currentCount),
                             total |-> DAILY_REQUEST_LIMIT,
                             used |-> currentCount,
                             dateKey |-> dateKey]
    /\ Inject(getFails /\ auth # NoAuth)
    /\ UNCHANGED <<clockVars, ledgerVars, budget, concVars, sweepVars>>

\* the wall clock advances
Tick ==
    /\ \E d \in TickSteps :
          /\ now + d <= MaxNow
          /\ now' = now + d
    /\ UNCHANGED <<tzOffset, ledgerVars, last, histVars, concVars, sweepVars>>

\* the parts of the state a specification does not exercise
IdleConc == txn = <<>> /\ slots0 = <<>>
IdleSweep ==
    entries = <<>> /\ blobs = {} /\ runs = 0 /\ userDocs = <<>> /\ sweeps = <<>>

Init ==
    /\ now = StartNow
    /\ tzOffset \in TzOffsets
    /\ usage = [u \in Users |-> [k \in DayKeys |-> NoDoc]]
    /\ calls = [u \in Users |-> [k \in DayKeys |-> 0]]
    /\ admits = [u \in Users |-> [k \in DayKeys |-> 0]]
    /\ last = NoOutcome
    /\ budget = MaxCalls
    /\ faults = 0
    /\ IdleConc
    /\ IdleSweep

Next ==
    \/ \E u \in Users : QuotaCheck(u, FALSE)
    \/ \E a \in Users \cup {NoAuth} : GetRemainingRequests(a, FALSE)
    \/ Tick

Spec == Init /\ [][Next]_vars

\* the ledger when the store may reject a transaction or a read
NextFault ==
    \/ \E u \in Users, f \in BOOLEAN : QuotaCheck(u, f)
    \/ \E a \in Users \cup {NoAuth}, f \in BOOLEAN : GetRemainingRequests(a, f)
    \/ Tick

\* counters already in use: each user's counter of the first day is absent
\* or holds the count that so many admitted checks have left
InUse(requests) ==
    /\ now = StartNow
    /\ tzOffset \in TzOffsets
    /\ \E c \in [Users -> {0, DAILY_REQUEST_LIMIT - 1, DAILY_REQUEST_LIMIT}] :
          LET k0 == getDateKeyForUser(StartNow, tzOffset)
              Used(u, k) == IF k = k0 THEN c[u] ELSE 0
          IN /\ usage = [u \in Users |-> [k \in DayKeys |->
                   IF Used(u, k) = 0 THEN NoDoc
                   ELSE [exists |-> TRUE, count |-> Used(u, k),
                         userId |-> u, dateKey |-> k]]]
             /\ calls = [u \in Users |-> [k \in DayKeys |-> Used(u, k)]]
             /\ admits = [u \in Users |-> [k \in DayKeys |-> Used(u, k)]]
    /\ last = NoOutcome
    /\ budget = requests
    /\ faults = 0
    /\ IdleConc
    /\ IdleSweep

InitInUse == InUse(MaxRequests)

SpecFault == InitInUse /\ [][NextFault]_vars

\* ------------------------------------------- concurrent quota checks
\* checkAndIncrementUsage invocations running at once, numbered in the
\* order in which they start.  Each await is a step: the call computes its document reference, the transaction reads
\* the counter, and the commit applies the staged write only if the
\* counter was not written since it was read; otherwise runTransaction
\* runs the transaction body again.

Calls == 1 .. NumCalls
CountsAtStart == {0, DAILY_REQUEST_LIMIT - 2, DAILY_REQUEST_LIMIT - 1,
                  DAILY_REQUEST_LIMIT}
IdleCall == [pc |-> "idle"]

\* const dateKey = getDateKeyForUser(); const usageRef = ...
CallStart(c) ==
    /\ txn[c].pc = "idle"
    /\ \A b \in Calls : b < c => txn[b].pc # "idle"
    /\ \E u \in Users :
          txn' = [txn EXCEPT ![c] =
                    [pc |-> "begin", uid |-> u,
                     key |-> getDateKeyForUser(now, tzOffset),
                     attempts |-> 0]]
    /\ UNCHANGED <<clockVars, ledgerVars, last, histVars, slots0, sweepVars>>

\* const usageDoc = await transaction.get(usageRef)
TxnGet(c) ==
    /\ txn[c].pc = "begin"
    /\ txn' = [txn EXCEPT ![c] =
                 [pc |-> "read", uid |-> txn[c].uid, key |-> txn[c].key,
                  attempts |-> txn[c].attempts + 1,
                  read |-> usage[txn[c].uid][txn[c].key]]]
    /\ UNCHANGED <<clockVars, ledgerVars, last, histVars, slots0, sweepVars>>

Finished(c, admitted) ==
    [pc |-> "done", uid |-> txn[c].uid, key |-> txn[c].key,
     attempts |-> txn[c].attempts, read |-> txn[c].read, ret |-> admitted]

\* a read followed by a set outside any transaction: the write is applied
\* whatever happened to the counter since it was read
TxnCommit_Unvalidated(c) ==
    /\ txn[c].pc = "read"
    /\ LET u == txn[c].uid
           k == txn[c].key
           currentCount == CurrentCount(txn[c].read)
       IN IF currentCount >= DAILY_REQUEST_LIMIT
          THEN /\ txn' = [txn EXCEPT ![c] = Finished(c, FALSE)]
               /\ calls' = [calls EXCEPT ![u][k] = @ + 1]
               /\ UNCHANGED <<usage, admits>>
          ELSE /\ usage' = [usage EXCEPT ![u][k] =
                               [exists |-> TRUE, count |-> currentCount + 1,
                                userId |-> u, dateKey |-> k]]
               /\ txn' = [txn EXCEPT ![c] = Finished(c, TRUE)]
               /\ calls' = [calls EXCEPT ![u][k] = @ + 1]
               /\ admits' = [admits EXCEPT ![u][k] = @ + 1]
    /\ UNCHANGED <<clockVars, last, histVars, slots0, sweepVars>>

\* the rest of the transaction body and the commit of the transaction
TxnCommit(c) ==
    /\ txn[c].pc = "read"
    /\ LET u == txn[c].uid
           k == txn[c].key
           currentCount == CurrentCount(txn[c].read)
       IN IF currentCount >= DAILY_REQUEST_LIMIT
          THEN \* return false: nothing to write
               /\ txn' = [txn EXCEPT ![c] = Finished(c, FALSE)]
               /\ calls' = [calls EXCEPT ![u][k] = @ + 1]
               /\ UNCHANGED <<usage, admits>>
          ELSE IF usage[u][k] = txn[c].read
          THEN \* transaction.set(usageRef, {count: newCount, ...}); return true
               /\ usage' = [usage EXCEPT ![u][k] =
                               [exists |-> TRUE, count |-> currentCount + 1,
                                userId |-> u, dateKey |-> k]]
               /\ txn' = [txn EXCEPT ![c] = Finished(c, TRUE)]
               /\ calls' = [calls EXCEPT ![u][k] = @ + 1]
               /\ admits' = [admits EXCEPT ![u][k] = @ + 1]
          ELSE \* the counter was written in between: the body runs again
               /\ txn' = [txn EXCEPT ![c] =
                            [pc |-> "begin", uid |-> u, key |-> k,
                             attempts |-> txn[c].attempts]]
               /\ UNCHANGED <<usage, calls, admits>>
    /\ UNCHANGED <<clockVars, last, histVars, slots0, sweepVars>>

InitConc ==
    /\ now = StartNow
    /\ tzOffset \in TzOffsets
    /\ \E c \in [Users -> CountsAtStart] :
          LET k0 == getDateKeyForUser(StartNow, tzOffset)
              Used(u, k) == IF k = k0 THEN c[u] ELSE 0
          IN usage = [u \in Users |-> [k \in DayKeys |->
                   IF Used(u, k) = 0 THEN NoDoc
                   ELSE [exists |-> TRUE, count |-> Used(u, k),
                         userId |-> u, dateKey |-> k]]]
    /\ slots0 = [u \in Users |-> [k \in DayKeys |->
                   DAILY_REQUEST_LIMIT - CurrentCount(usage[u][k])]]
    /\ calls = [u \in Users |-> [k \in DayKeys |-> 0]]
    /\ admits = [u \in Users |-> [k \in DayKeys |-> 0]]
    /\ txn = [c \in Calls |-> IdleCall]
    /\ last = NoOutcome
    /\ budget = 0
    /\ faults = 0
    /\ IdleSweep

NextConc ==
    \/ \E c \in Calls : CallStart(c)
    \/ \E c \in Calls : TxnGet(c)
    \/ \E c \in Calls : TxnCommit(c)

SpecConc == InitConc /\ [][NextConc]_vars

\* ------------------------------------------------- analysis handlers
maxRetries == 3
baseDelay == 1000

\* what openai.chat.completions.create does in one call: it returns a
\* completion that passes or fails the validation of its content, or it
\* rejects with a network error of the timeout family ('Premature close',
\* 'timeout', 'ECONNRESET', 'socket hang up'), of the gateway family
\* ('ENOTFOUND', '502', '503', '504'), or with any other error
CreateOutcomes == {"valid", "invalid", "timeout", "gateway", "other"}
\* an HttpsError whose message names a timeout: what a wrapped function
\* other than the create call may throw
RetryOutcomes == CreateOutcomes \cup {"https-timeout"}
\* error instanceof functions.https.HttpsError
IsHttpsError(o) == o = "https-timeout"
\* error.message includes one of the eight network markers
IsRetryable(o) == o \in {"timeout", "gateway", "https-timeout"}

\* the outcomes of the successive create calls of one request: n retryable
\* failures followed by one final outcome
CreateScripts ==
    {[i \in 1 .. (maxRetries + 1) |-> IF i <= n THEN r ELSE t] :
        n \in {0, 1, maxRetries, maxRetries + 1}, r \in {"timeout", "gateway"},
        t \in {"valid", "invalid", "other"}}

RECURSIVE RetryFrom(_, _)
\* the loop of retryWithBackoff from the given attempt on
RetryFrom(script, attempt) ==
    LET o == script[attempt + 1]
    IN  IF o \in {"valid", "invalid"}
        THEN [fnCalls |-> attempt + 1, threw |-> FALSE, out |-> o, delays |-> <<>>]
        ELSE IF IsHttpsError(o)
        THEN [fnCalls |-> attempt + 1, threw |-> TRUE, out |-> o, delays |-> <<>>]
        ELSE IF ~IsRetryable(o) \/ attempt = maxRetries
        THEN [fnCalls |-> attempt + 1, threw |-> TRUE, out |-> o, delays |-> <<>>]
        ELSE LET r == RetryFrom(script, attempt + 1)
                 delay == baseDelay * (2 ^ attempt)
             IN [r EXCEPT !.delays = <<delay>> \o @]

retryWithBackoff(script) == RetryFrom(script, 0)

ModelCalls(n) == [i \in 1 .. n |-> "model"]

HttpsError(code, message) == [err |-> code, msg |-> message]
Returned == [err |-> "none", msg |-> ""]

\* processImageWithOpenAI, up to the error it throws or the value it returns
processImageWithOpenAI(script) ==
    LET r == retryWithBackoff(script)
    IN  IF r.threw THEN [fnCalls |-> r.fnCalls, https |-> FALSE, raw |-> r.out]
        ELSE IF r.out = "invalid"
        THEN [fnCalls |-> r.fnCalls, https |-> TRUE, raw |-> "none",
              error |-> HttpsError("internal", "Invalid response format from OpenAI.")]
        ELSE [fnCalls |-> r.fnCalls, https |-> FALSE, raw |-> "none"]

\* processWithOpenAI of the description handler: one create call, no retry
processWithOpenAI(o) ==
    IF o \in {"timeout", "gateway", "other"}
    THEN [fnCalls |-> 1, https |-> FALSE, raw |-> o]
    ELSE IF o = "invalid"
    THEN [fnCalls |-> 1, https |-> TRUE, raw |-> "none",
          error |-> HttpsError("internal", "Invalid response format from OpenAI.")]
    ELSE [fnCalls |-> 1, https |-> FALSE, raw |-> "none"]

LimitReached ==
    HttpsError("resource-exhausted",
               "Daily API limit reached. Please use manual entry for additional meals today.")
CheckFailed == HttpsError("internal", "Error checking usage limit")
Unauthenticated ==
    HttpsError("unauthenticated", "The function must be called while authenticated.")

\* request.data.imageUrl: absent, empty or a URL
Undefined == "undefined"
ImageInputs == {Undefined, "", "https://example.com/image.jpg"}

\* a description is absent or a string, given by the classes of its
\* characters: "w" a non-space character, "s" white space
Words(n) == [i \in 1 .. (2 * n - 1) |-> IF i % 2 = 1 THEN "w" ELSE "s"]
NoDescription == [present |-> FALSE, chars |-> <<>>]
Text(cs) == [present |-> TRUE, chars |-> cs]
DescInputs == {NoDescription, Text(<<>>), Text(<<"s", "s">>), Text(Words(2)),
               Text(<<"s">> \o Words(100) \o <<"s">>), Text(Words(101))}

\* description.trim().length === 0
IsBlank(cs) == \A i \in 1 .. Len(cs) : cs[i] = "s"
\* description.trim().split(/\s+/).filter(word => word.length > 0).length
WordCount(cs) ==
    Cardinality({i \in 1 .. Len(cs) : cs[i] = "w" /\ (i = 1 \/ cs[i - 1] = "s")})

UsageGate_Open(q) ==
    IF q.threw THEN [passed |-> FALSE, error |-> CheckFailed]
    ELSE [passed |-> TRUE, error |-> Returned]

\* the try/catch around the quota check: a false result throws
\* 'resource-exhausted' inside the try block, and the catch clause turns
\* whatever was thrown into 'internal'
UsageGate(q) ==
    IF q.threw THEN [passed |-> FALSE, error |-> CheckFailed]
    ELSE IF ~q.ret
    THEN LET thrown == LimitReached
         IN [passed |-> FALSE, error |-> CheckFailed]
    ELSE [passed |-> TRUE, error |-> Returned]

\* the handler of analyzeMeal: the error it rejects with or its return,
\* the calls it made in their order, and the ledger it leaves
analyzeMeal(auth, imageUrl, apiKey, txnFails, script) ==
    IF auth = NoAuth
    THEN [out |-> Unauthenticated, log |-> <<>>, usage |-> usage, checked |-> FALSE]
    ELSE
    LET q == CheckAndIncrementUsage(auth, txnFails)
        gate == UsageGate(q)
        base == [usage |-> q.usage, checked |-> TRUE, quota |-> q]
        Reject(e, lg) == base @@ [out |-> e, log |-> lg]
    IN  IF ~gate.passed THEN Reject(gate.error, <<"quota">>)
        ELSE IF imageUrl = Undefined \/ imageUrl = ""
        THEN Reject(HttpsError("invalid-argument",
                 "The function must be called with an \"imageUrl\" argument."),
                 <<"quota">>)
        ELSE IF ~apiKey
        THEN Reject(HttpsError("internal",
                 "OpenAI API key not configured in Firebase Functions."),
                 <<"quota">>)
        ELSE
        LET p == processImageWithOpenAI(script)
            lg == <<"quota">> \o ModelCalls(p.fnCalls)
        IN  IF p.https THEN Reject(p.error, lg)
            ELSE IF p.raw = "timeout"
            THEN Reject(HttpsError("deadline-exceeded", "Request timed out."), lg)
            ELSE IF p.raw # "none"
            THEN Reject(HttpsError("internal", "OpenAI API error"), lg)
            ELSE Reject(Returned, lg)

\* the handler of analyzeNaturalLanguageMeal
analyzeNaturalLanguageMeal(auth, description, apiKey, legacyKey, txnFails, o) ==
    IF auth = NoAuth
    THEN [out |-> Unauthenticated, log |-> <<>>, usage |-> usage, checked |-> FALSE]
    ELSE
    LET q == CheckAndIncrementUsage(auth, txnFails)
        gate == UsageGate(q)
        base == [usage |-> q.usage, checked |-> TRUE, quota |-> q]
        Reject(e, lg) == base @@ [out |-> e, log |-> lg]
        p == processWithOpenAI(o)
        lg == <<"quota">> \o ModelCalls(p.fnCalls)
    IN  IF ~gate.passed THEN Reject(gate.error, <<"quota">>)
        ELSE IF ~description.present \/ Len(description.chars) = 0
                  \/ IsBlank(description.chars)
        THEN Reject(HttpsError("invalid-argument",
                 "The function must be called with a \"description\" argument."),
                 <<"quota">>)
        ELSE IF WordCount(description.chars) > 100
        THEN Reject(HttpsError("invalid-argument",
                 "Meal description cannot exceed 100 words."), <<"quota">>)
        ELSE IF ~apiKey /\ ~legacyKey
        THEN Reject(HttpsError("internal",
                 "OpenAI API key not configured in Firebase Functions."),
                 <<"quota">>)
        ELSE IF p.https THEN Reject(p.error, lg)
        ELSE IF p.raw # "none" /\ ~apiKey
        THEN \* the legacy-key branch awaits outside the try block
             Reject(HttpsError("internal", "INTERNAL"), lg)
        ELSE IF p.raw # "none"
        THEN Reject(HttpsError("internal", "OpenAI API error"), lg)
        ELSE Reject(Returned, lg)

\* one request to a handler takes effect
Handle(name, auth, h) ==
    /\ budget > 0
    /\ budget' = budget - 1
    /\ usage' = h.usage
    /\ IF h.checked
       THEN /\ Record(auth, h.quota)
            /\ Inject(h.quota.failed)
            /\ last' = [op |-> name, uid |-> auth, err |-> h.out.err,
                        msg |-> h.out.msg, log |-> h.log, checked |-> TRUE,
                        ret |-> h.quota.ret, failed |-> h.quota.failed,
                        key |-> h.quota.key, pre |-> h.quota.pre, at |-> now]
       ELSE /\ UNCHANGED <<calls, admits, faults>>
            /\ last' = [op |-> name, uid |-> auth, err |-> h.out.err,
                        msg |-> h.out.msg, log |-> h.log, checked |-> FALSE,
                        at |-> now]
    /\ UNCHANGED <<clockVars, concVars, sweepVars>>

\* one request to analyzeMeal by one of the callers with one of the
\* images, answered by the model as one of the scripts says
AnalyzeMealFor(callers, images, scripts) ==
    \E auth \in callers, imageUrl \in images,
       apiKey \in BOOLEAN, txnFails \in BOOLEAN, script \in scripts :
        Handle("analyzeMeal", auth,
               analyzeMeal(auth, imageUrl, apiKey, txnFails, script))

AnalyzeMeal == AnalyzeMealFor(Users \cup {NoAuth}, ImageInputs, CreateScripts)

\* one request to analyzeNaturalLanguageMeal
AnalyzeNaturalLanguageMealFor(callers, descriptions, outcomes) ==
    \E auth \in callers, description \in descriptions,
       apiKey \in BOOLEAN, legacyKey \in BOOLEAN, txnFails \in BOOLEAN,
       o \in outcomes :
        Handle("analyzeNaturalLanguageMeal", auth,
               analyzeNaturalLanguageMeal(auth, description, apiKey, legacyKey,
                                          txnFails, o))

AnalyzeNaturalLanguageMeal ==
    AnalyzeNaturalLanguageMealFor(Users \cup {NoAuth}, DescInputs, CreateOutcomes)

NextAnalyze ==
    \/ AnalyzeMeal
    \/ AnalyzeNaturalLanguageMeal

InitAnalyze == InUse(MaxAttempts)

SpecAnalyze == InitAnalyze /\ [][NextAnalyze]_vars

\* ------------------------------------------------------- the retry loop
\* retryWithBackoff followed iteration by iteration, around a function
\* whose successive calls end as a script says.

RetryScripts == [1 .. (maxRetries + 1) -> RetryOutcomes \ {"invalid"}]
Retrying(script) ==
    [op |-> "retryWithBackoff", script |-> script, pc |-> "loop",
     attempt |-> 0, fnCalls |-> 0, delays |-> <<>>, out |-> "none"]

retryIteration_RetriesHttpsErrors(st) ==
    LET o == st.script[st.attempt + 1]
        called == [st EXCEPT !.fnCalls = @ + 1]
    IN  IF o = "valid"
        THEN [called EXCEPT !.pc = "returned", !.out = o]
        ELSE IF ~IsRetryable(o) \/ st.attempt = maxRetries
        THEN [called EXCEPT !.pc = "thrown", !.out = o]
        ELSE [called EXCEPT !.delays = Append(@, baseDelay * (2 ^ st.attempt)),
                            !.attempt = @ + 1]

\* one iteration of the for loop: the call of fn, then the return, the
\* throw, or the wait that precedes the next iteration
retryIteration(st) ==
    LET o == st.script[st.attempt + 1]
        called == [st EXCEPT !.fnCalls = @ + 1]
    IN  IF o = "valid"
        THEN [called EXCEPT !.pc = "returned", !.out = o]
        ELSE IF IsHttpsError(o)
        THEN [called EXCEPT !.pc = "thrown", !.out = o]
        ELSE IF ~IsRetryable(o) \/ st.attempt = maxRetries
        THEN [called EXCEPT !.pc = "thrown", !.out = o]
        ELSE [called EXCEPT !.delays = Append(@, baseDelay * (2 ^ st.attempt)),
                            !.attempt = @ + 1]

RetryIteration ==
    /\ last.op = "retryWithBackoff"
    /\ last.pc = "loop"
    /\ last.attempt <= maxRetries
    /\ last' = retryIteration(last)
    /\ UNCHANGED <<clockVars, ledgerVars, concVars, histVars, sweepVars>>

InitRetry ==
    /\ now = StartNow
    /\ tzOffset = 0
    /\ usage = [u \in Users |-> [k \in DayKeys |-> NoDoc]]
    /\ calls = [u \in Users |-> [k \in DayKeys |-> 0]]
    /\ admits = [u \in Users |-> [k \in DayKeys |-> 0]]
    /\ \E script \in RetryScripts : last = Retrying(script)
    /\ budget = 0
    /\ faults = 0
    /\ IdleConc
    /\ IdleSweep

NextRetry == RetryIteration

SpecRetry == InitRetry /\ [][NextRetry]_vars /\ WF_vars(NextRetry)

\* ------------------------------------------------------- the day key
\* The ledger operations called at instants around UTC midnight, on
\* machines of each timezone offset.

ProbeMinutes == {0, 1, 119, 120, 1139, 1140, 1439}
ProbeInstants == {d * MinutesPerDay + m : d \in 1 .. 2, m \in ProbeMinutes}

InitDateKey ==
    /\ now \in ProbeInstants
    /\ tzOffset \in TzOffsets
    /\ usage = [u \in Users |-> [k \in DayKeys |-> NoDoc]]
    /\ calls = [u \in Users |-> [k \in DayKeys |-> 0]]
    /\ admits = [u \in Users |-> [k \in DayKeys |-> 0]]
    /\ last = NoOutcome
    /\ budget = MaxRequests
    /\ faults = 0
    /\ IdleConc
    /\ IdleSweep

NextDateKey ==
    \/ \E u \in Users : QuotaCheck(u, FALSE)
    \/ \E a \in Users : GetRemainingRequests(a, FALSE)

SpecDateKey == InitDateKey /\ [][NextDateKey]_vars

\* ------------------------------------------------------ image sweeper
\* entries[e] is the document users/{Owner(e)}/entries/{e}; blobs is the
\* set of object paths present in the storage bucket.

DefaultRetentionDays == 90
AverageImageBytes == 500 * 1024

SweepNow == 100 * MinutesPerDay
EntryOrder == <<"e1", "e2", "e3">>
EntryIds == {EntryOrder[i] : i \in DOMAIN EntryOrder}
Owner(e) == IF e = "e3" THEN "u2" ELSE "u1"

\* a string is the sequence of its pieces: the separators "/" and "?",
\* the escape "%2F" of a slash, a lone "%" that starts no valid escape,
\* and runs of other characters
Null == [isNull |-> TRUE, url |-> <<>>]
Url(s) == [isNull |-> FALSE, url |-> s]
Prefix == <<"https:", "/", "/", "firebasestorage.googleapis.com", "/",
            "v0", "/", "b", "/", "bucket", "/">>
ObjectPath(u, e) == <<"users", "/", u, "/", "entries", "/", e, ".jpg">>
DownloadUrl(u, e) ==
    Prefix \o <<"o", "/", "users", "%2F", u, "%2F", "entries", "%2F", e,
                ".jpg", "?", "alt=media">>
ImageRefs(e) ==
    {Null,
     Url(DownloadUrl(Owner(e), e)),
     Url(<<"https:", "/", "/", "example.com", "/", "photo.jpg">>),
     Url(Prefix \o <<"o">>),
     Url(Prefix \o <<"o", "/">>),
     Url(Prefix \o <<"o", "/", "%", "zz.jpg">>)}

UnsetParam == [present |-> FALSE, value |-> 0]
NoPreferences == [set |-> FALSE]
NoUserDoc == [exists |-> FALSE]
\* a user document: the profile the client wrote and the stored preference
UserDoc(prefs) ==
    [exists |-> TRUE, displayName |-> "name", storagePreferences |-> prefs]
UnsetFlag == [present |-> FALSE, value |-> FALSE]
Param(v) == [present |-> TRUE, value |-> v]

RECURSIVE split(_, _)
\* String.prototype.split on a one-character separator
split(s, sep) ==
    IF s = <<>> THEN << <<>> >>
    ELSE LET rest == split(Tail(s), sep)
         IN IF Head(s) = sep THEN << <<>> >> \o rest
            ELSE << <<Head(s)>> \o Head(rest) >> \o Tail(rest)

\* Array.prototype.findIndex(part => part === 'o'), counted from 0
findIndex(parts) ==
    LET found == {j \in 1 .. Len(parts) : parts[j] = <<"o">>}
    IN  IF found = {} THEN 0 - 1
        ELSE (CHOOSE j \in found : \A h \in found : j <= h) - 1

decodeURIComponent(s) ==
    IF \E i \in 1 .. Len(s) : s[i] = "%"
    THEN [threw |-> TRUE, value |-> <<>>]
    ELSE [threw |-> FALSE,
          value |-> [i \in 1 .. Len(s) |-> IF s[i] = "%2F" THEN "/" ELSE s[i]]]

NoFault == [kind |-> "none", id |-> "none"]
DeleteFile_KeepsReference(st, e, fault, at) ==
    LET path == ObjectPath(Owner(e), e)
    IN  IF st.entries[e].imageUrl # Url(DownloadUrl(Owner(e), e)) THEN st
        ELSE IF path \notin st.blobs \/ fault = [kind |-> "storage", id |-> e]
        THEN [st EXCEPT !.errorCount = @ + 1]
        ELSE [st EXCEPT !.blobs = @ \ {path},
                        !.entries[e].imageDeletedAt = Param(at),
                        !.deletedCount = @ + 1]

DeleteFile_ClearsAnyway(st, e, fault, at) ==
    LET path == ObjectPath(Owner(e), e)
    IN  IF st.entries[e].imageUrl # Url(DownloadUrl(Owner(e), e)) THEN st
        ELSE IF path \notin st.blobs \/ fault = [kind |-> "storage", id |-> e]
        THEN [st EXCEPT !.entries[e].imageUrl = Null,
                        !.entries[e].imageDeletedAt = Param(at),
                        !.errorCount = @ + 1]
        ELSE [st EXCEPT !.blobs = @ \ {path},
                        !.entries[e].imageUrl = Null,
                        !.entries[e].imageDeletedAt = Param(at),
                        !.deletedCount = @ + 1]

\* one iteration of the deletion loop; st holds entries, blobs and the two
\* counters
DeleteFile(st, e, fault, at) ==
    LET imageUrl == st.entries[e].imageUrl.url
        urlParts == split(imageUrl, "/")
        pathStart == findIndex(urlParts) + 1
        Caught == [st EXCEPT !.errorCount = @ + 1]
    IN  IF ~(pathStart > 0 /\ pathStart < Len(urlParts)) THEN st
        ELSE
        LET encodedPath == split(urlParts[pathStart + 1], "?")[1]
            filePath == decodeURIComponent(encodedPath)
        IN  IF filePath.threw THEN Caught
            ELSE IF filePath.value = <<>>
            THEN Caught      \* bucket.file('') throws
            ELSE IF filePath.value \notin st.blobs
                      \/ fault = [kind |-> "storage", id |-> e]
            THEN Caught      \* file.delete() rejects
            ELSE IF fault = [kind |-> "db", id |-> e]
            THEN [Caught EXCEPT !.blobs = @ \ {filePath.value}]
            ELSE [st EXCEPT !.blobs = @ \ {filePath.value},
                            !.entries[e].imageUrl = Null,
                            !.entries[e].imageDeletedAt = Param(at),
                            !.deletedCount = @ + 1]

RECURSIVE DeleteFiles(_, _, _, _)
DeleteFiles_StopsAtError(st, files, fault, at) ==
    IF files = <<>> THEN st
    ELSE LET next == DeleteFile(st, Head(files), fault, at)
         IN IF next.errorCount > st.errorCount THEN next
            ELSE DeleteFiles(next, Tail(files), fault, at)

\* the loop over filesToDelete
DeleteFiles(st, files, fault, at) ==
    IF files = <<>> THEN st
    ELSE DeleteFiles(DeleteFile(st, Head(files), fault, at), Tail(files), fault, at)

retentionDays(data) ==
    IF data.retentionDays.present THEN data.retentionDays.value
    ELSE DefaultRetentionDays

dryRun_DefaultsFalse(data) ==
    IF data.dryRun.present THEN data.dryRun.value ELSE FALSE

dryRun(data) ==
    IF data.dryRun.present THEN data.dryRun.value ELSE TRUE

\* cutoffDate.setDate(cutoffDate.getDate() - retentionDays), on a machine
\* whose days all have 24 hours
cutoffDate(at, days) == at - days * MinutesPerDay

\* the documents of the query, in the order of the snapshot, that pass
\* `if (imageUrl)`
filesToDelete(userId, cutoff) ==
    SelectSeq(EntryOrder, LAMBDA e :
        /\ Owner(e) = userId
        /\ entries[e].createdAt < cutoff
        /\ ~entries[e].imageUrl.isNull
        /\ entries[e].imageUrl.url # <<>>)

SweepFailed(code, message) ==
    [err |-> code, msg |-> message, action |-> "none", entries |-> entries,
     blobs |-> blobs, files |-> <<>>]

cleanupUserImages(auth, data, fault) ==
    IF auth = NoAuth THEN SweepFailed("unauthenticated", "Must be authenticated")
    ELSE IF fault.kind = "query"
    THEN SweepFailed("internal", "Failed to cleanup images")
    ELSE
    LET cutoff == cutoffDate(now, retentionDays(data))
        files == filesToDelete(auth, cutoff)
    IN  IF dryRun(data)
        THEN [err |-> "none", msg |-> "", action |-> "dry-run",
              filesFound |-> Len(files),
              estimatedSpaceSaved |-> Len(files) * AverageImageBytes,
              cutoffDate |-> cutoff,
              entries |-> entries, blobs |-> blobs, files |-> files]
        ELSE
        LET st == DeleteFiles([entries |-> entries, blobs |-> blobs,
                               deletedCount |-> 0, errorCount |-> 0],
                              files, fault, now)
        IN [err |-> "none", msg |-> "", action |-> "cleanup-completed",
            deletedCount |-> st.deletedCount, errorCount |-> st.errorCount,
            estimatedSpaceSaved |-> st.deletedCount * AverageImageBytes,
            entries |-> st.entries, blobs |-> st.blobs, files |-> files]

SweepInputs ==
    [retentionDays : {UnsetParam, Param(30)},
     dryRun : {UnsetFlag, Param(TRUE), Param(FALSE)}]

\* the object path the deletion loop derives from a reference, when it
\* gets as far as calling file.delete()
filePath(imageUrl) ==
    LET urlParts == split(imageUrl, "/")
        pathStart == findIndex(urlParts) + 1
    IN  IF ~(pathStart > 0 /\ pathStart < Len(urlParts))
        THEN [reached |-> FALSE, value |-> <<>>]
        ELSE LET decoded == decodeURIComponent(split(urlParts[pathStart + 1], "?")[1])
             IN [reached |-> ~decoded.threw /\ decoded.value # <<>>,
                 value |-> decoded.value]

\* the operations one call reaches and that can fail in it: the query of
\* an authenticated call and, in a real run, the storage delete of each
\* file whose reference yields a path and the document update of each
\* file whose blob is deleted
ReachedFaults(auth, data) ==
    IF auth = NoAuth THEN {NoFault}
    ELSE {NoFault, [kind |-> "query", id |-> "none"]} \cup
         (IF dryRun(data) THEN {}
          ELSE LET files == filesToDelete(auth, cutoffDate(now, retentionDays(data)))
                   Path(i) == filePath(entries[files[i]].imageUrl.url)
               IN {[kind |-> "storage", id |-> files[i]] :
                      i \in {j \in DOMAIN files : Path(j).reached}}
                  \cup
                  {[kind |-> "db", id |-> files[i]] :
                      i \in {j \in DOMAIN files :
                                Path(j).reached /\ Path(j).value \in blobs}})

\* one call of cleanupUserImages by one of the callers with one of the
\* inputs takes effect
CleanupUserImagesBy(callers, inputs) ==
    /\ runs < MaxRuns
    /\ runs' = runs + 1
    /\ \E auth \in callers, data \in inputs :
        \E fault \in ReachedFaults(auth, data) :
            /\ Inject(fault # NoFault)
            /\ LET r == cleanupUserImages(auth, data, fault)
               IN  /\ entries' = r.entries
                   /\ blobs' = r.blobs
                   /\ last' = [x \in DOMAIN r \ {"entries", "blobs"} |-> r[x]] @@
                              [op |-> "cleanupUserImages", uid |-> auth,
                               data |-> data, fault |-> fault, at |-> now]
    /\ UNCHANGED <<clockVars, ledgerVars, concVars, budget, userDocs, sweeps>>

\* one call of cleanupUserImages takes effect
CleanupUserImages == CleanupUserImagesBy(Users \cup {NoAuth}, SweepInputs)

CreatedAts ==
    {cutoffDate(SweepNow, DefaultRetentionDays) + d : d \in {0 - 1, 0, 1}}

InitSweep ==
    /\ now = SweepNow
    /\ tzOffset = 0
    /\ usage = [u \in Users |-> [k \in DayKeys |-> NoDoc]]
    /\ calls = [u \in Users |-> [k \in DayKeys |-> 0]]
    /\ admits = [u \in Users |-> [k \in DayKeys |-> 0]]
    /\ last = NoOutcome
    /\ budget = 0
    /\ faults = 0
    /\ IdleConc
    /\ entries \in [EntryIds -> [createdAt : CreatedAts,
                                 imageUrl : UNION {ImageRefs(e) : e \in EntryIds},
                                 imageDeletedAt : {UnsetParam},
                                 calories : {450}]]
    /\ \A e \in EntryIds : entries[e].imageUrl \in ImageRefs(e)
    /\ entries["e3"].createdAt < cutoffDate(SweepNow, DefaultRetentionDays)
    /\ entries["e2"].createdAt # cutoffDate(SweepNow, DefaultRetentionDays)
    /\ entries["e2"].imageUrl \in {Null, Url(DownloadUrl(Owner("e2"), "e2"))}
    /\ entries["e2"].imageUrl.isNull =>
          entries["e2"].createdAt < cutoffDate(SweepNow, DefaultRetentionDays)
    /\ entries["e3"].imageUrl = Url(DownloadUrl(Owner("e3"), "e3"))
    /\ blobs = {ObjectPath(Owner(e), e) :
                   e \in {x \in EntryIds :
                            entries[x].imageUrl = Url(DownloadUrl(Owner(x), x))}}
    /\ runs = 0
    /\ userDocs = [u \in Users |-> UserDoc(NoPreferences)]
    /\ sweeps = <<>>

NextSweep == CleanupUserImages

SpecSweep == InitSweep /\ [][NextSweep]_vars

\* ------------------------------------------------- retention policies
\* imageQuality is written in hundredths (0.9 is 90)
DEFAULT_STORAGE_CONFIG ==
    [retentionDays |-> 90, maxFileSize |-> 10 * 1024 * 1024,
     imageQuality |-> 90, maxImageWidth |-> 1920,
     cleanupSchedule |-> "0 2 * * *", enableAutomaticCleanup |-> TRUE,
     cleanupBatchSize |-> 100]
COST_OPTIMIZED ==
    [DEFAULT_STORAGE_CONFIG EXCEPT !.retentionDays = 30, !.imageQuality = 80,
                                   !.maxImageWidth = 1280]
PREMIUM ==
    [DEFAULT_STORAGE_CONFIG EXCEPT !.retentionDays = 365,
                                   !.maxFileSize = 20 * 1024 * 1024,
                                   !.imageQuality = 95]
DEVELOPMENT ==
    [DEFAULT_STORAGE_CONFIG EXCEPT !.retentionDays = 7,
                                   !.enableAutomaticCleanup = FALSE]

UnsetTier == [present |-> FALSE, value |-> ""]

getStorageConfig_ThreeTiers(tier) ==
    LET t == IF tier.present THEN tier.value ELSE "default"
    IN  CASE t = "cost_optimized" -> COST_OPTIMIZED
          [] t = "premium" -> PREMIUM
          [] OTHER -> DEFAULT_STORAGE_CONFIG

\* tier is an optional string; the default parameter turns undefined into
\* 'default'
getStorageConfig(tier) ==
    LET t == IF tier.present THEN tier.value ELSE "default"
    IN  CASE t = "cost_optimized" -> COST_OPTIMIZED
          [] t = "premium" -> PREMIUM
          [] t = "development" -> DEVELOPMENT
          [] OTHER -> DEFAULT_STORAGE_CONFIG

\* imagesPerDay * retentionDays * averageImageSize / 2^30 * 0.026 dollars,
\* as the fraction num / den: 5 * 512000 * 26 / (2^30 * 1000) = 65 / 2^20
calculateEstimatedCost(days) == [num |-> days * 65, den |-> 2 ^ 20]

\* ------------------------------------------------ tier preferences
Failure(code, message) == [err |-> code, msg |-> message]

\* customRetentionDays || config.retentionDays: undefined and 0 are falsy
resolvedRetentionDays(customRetentionDays, config) ==
    IF customRetentionDays.present /\ customRetentionDays.value # 0
    THEN customRetentionDays.value
    ELSE config.retentionDays

setStoragePreferences(auth, data, fault) ==
    IF auth = NoAuth THEN Failure("unauthenticated", "Must be authenticated")
    ELSE
    LET config == getStorageConfig(data.tier)
        preferences ==
            [set |-> TRUE,
             storageTier |-> IF data.tier.present /\ data.tier.value # ""
                             THEN data.tier.value ELSE "default",
             retentionDays |-> resolvedRetentionDays(data.customRetentionDays, config),
             imageQuality |-> config.imageQuality,
             maxImageWidth |-> config.maxImageWidth,
             updatedAt |-> now]
    IN  \* update() rejects when the document does not exist
        IF ~userDocs[auth].exists \/ fault.kind = "db"
        THEN Failure("internal", "Failed to set preferences")
        ELSE [err |-> "none", msg |-> "", success |-> TRUE,
              preferences |-> preferences,
              estimatedMonthlyCost |-> calculateEstimatedCost(preferences.retentionDays),
              userDocs |-> [userDocs EXCEPT ![auth].storagePreferences = preferences]]

PreferenceInputs ==
    [tier : {UnsetTier, Param("default"), Param("cost_optimized"),
             Param("premium"), Param("development"), Param("bogus")},
     customRetentionDays : {UnsetParam, Param(0), Param(0 - 5), Param(30)}]

\* one call of setStoragePreferences, with arguments among inputs, takes
\* effect
SetStoragePreferences(callers, inputs) ==
    /\ runs < MaxRuns
    /\ runs' = runs + 1
    /\ \E auth \in callers, data \in inputs :
        \E fault \in IF auth = NoAuth THEN {NoFault}
                     ELSE {NoFault, [kind |-> "db", id |-> "none"]} :
            /\ Inject(fault # NoFault)
            /\ LET r == setStoragePreferences(auth, data, fault)
               IN  /\ userDocs' = IF r.err = "none" THEN r.userDocs ELSE userDocs
                   /\ last' = [x \in DOMAIN r \ {"userDocs"} |-> r[x]] @@
                              [op |-> "setStoragePreferences", uid |-> auth,
                               data |-> data, fault |-> fault, at |-> now]
    /\ UNCHANGED <<clockVars, ledgerVars, concVars, budget, entries, blobs, sweeps>>

\* ------------------------------------------------- usage analysis
\* Sizes are kept in blocks of 4096 bytes: the sizes at which the cost
\* rule fires are past 2^31 bytes.
BlockBytes == 4096
\* totalFiles * 500 * 1024 bytes
estimatedSize(totalFiles) == totalFiles * ((500 * 1024) \div BlockBytes)

NoStats ==
    [totalFiles |-> 0, totalSizeBytes |-> 0,
     oldestFileDate |-> UnsetParam, newestFileDate |-> UnsetParam,
     filesByAge |-> [last30Days |-> 0, last90Days |-> 0,
                     last365Days |-> 0, older |-> 0]]

CountFile_StrictBoundaries(stats, createdAt, at) ==
    LET thirtyDaysAgo == at - 30 * MinutesPerDay
        ninetyDaysAgo == at - 90 * MinutesPerDay
        oneYearAgo == at - 365 * MinutesPerDay
        bucket == IF createdAt > thirtyDaysAgo THEN "last30Days"
                  ELSE IF createdAt > ninetyDaysAgo THEN "last90Days"
                  ELSE IF createdAt > oneYearAgo THEN "last365Days"
                  ELSE "older"
    IN  [stats EXCEPT
            !.totalFiles = @ + 1,
            !.oldestFileDate =
                IF ~@.present \/ createdAt < @.value THEN Param(createdAt) ELSE @,
            !.newestFileDate =
                IF ~@.present \/ createdAt > @.value THEN Param(createdAt) ELSE @,
            !.filesByAge[bucket] = @ + 1]

\* the body of the loop over the documents of the snapshot
CountFile(stats, createdAt, at) ==
    LET thirtyDaysAgo == at - 30 * MinutesPerDay
        ninetyDaysAgo == at - 90 * MinutesPerDay
        oneYearAgo == at - 365 * MinutesPerDay
        bucket == IF createdAt >= thirtyDaysAgo THEN "last30Days"
                  ELSE IF createdAt >= ninetyDaysAgo THEN "last90Days"
                  ELSE IF createdAt >= oneYearAgo THEN "last365Days"
                  ELSE "older"
    IN  [stats EXCEPT
            !.totalFiles = @ + 1,
            !.oldestFileDate =
                IF ~@.present \/ createdAt < @.value THEN Param(createdAt) ELSE @,
            !.newestFileDate =
                IF ~@.present \/ createdAt > @.value THEN Param(createdAt) ELSE @,
            !.filesByAge[bucket] = @ + 1]

RECURSIVE CountFiles(_, _, _)
\* a document without createdAt is passed over: if (createdAt)
CountFiles(stats, docs, at) ==
    IF docs = <<>> THEN stats
    ELSE CountFiles(IF "createdAt" \in DOMAIN entries[Head(docs)]
                    THEN CountFile(stats, entries[Head(docs)].createdAt, at)
                    ELSE stats,
                    Tail(docs), at)

generateStorageRecommendations_FromThreshold(stats) ==
    (IF stats.filesByAge.older > 0 THEN <<"older-than-1-year">> ELSE <<>>)
    \o (IF stats.filesByAge.last365Days >= 100 THEN <<"automatic-cleanup">> ELSE <<>>)
    \o (IF stats.totalSizeBytes * 13 >= 625 * (2 ^ 20)
        THEN <<"cost">> ELSE <<>>)
    \o (IF stats.totalFiles >= 1000 THEN <<"reduce-quality">> ELSE <<>>)

\* the four rules in their order; the cost rule
\* totalSizeBytes / 2^30 * 0.026 > 5 in whole numbers of blocks:
\* blocks * 4096 / 2^30 * 26 / 1000 > 5  iff  blocks * 13 > 625 * 2^20
generateStorageRecommendations(stats) ==
    (IF stats.filesByAge.older > 0 THEN <<"older-than-1-year">> ELSE <<>>)
    \o (IF stats.filesByAge.last365Days > 100 THEN <<"automatic-cleanup">> ELSE <<>>)
    \o (IF stats.totalSizeBytes * 13 > 625 * (2 ^ 20)
        THEN <<"cost">> ELSE <<>>)
    \o (IF stats.totalFiles > 1000 THEN <<"reduce-quality">> ELSE <<>>)

imageDocs_WithCleared(userId) ==
    SelectSeq(EntryOrder, LAMBDA e : Owner(e) = userId)

\* the snapshot of where('imageUrl', '!=', null)
imageDocs(userId) ==
    SelectSeq(EntryOrder, LAMBDA e :
        Owner(e) = userId /\ ~entries[e].imageUrl.isNull)

getStorageUsage_QueriesFirst(auth, fault) ==
    IF fault.kind = "query"
    THEN Failure("internal", "Failed to get storage usage")
    ELSE IF auth = NoAuth THEN Failure("unauthenticated", "Must be authenticated")
    ELSE LET docs == imageDocs(auth)
             counted == CountFiles(NoStats, docs, now)
             stats == [counted EXCEPT
                          !.totalSizeBytes = estimatedSize(counted.totalFiles)]
         IN [err |-> "none", msg |-> "", usage |-> stats, docs |-> docs,
             recommendations |-> generateStorageRecommendations(stats)]

\* the handler of getStorageUsage
getStorageUsage(auth, fault) ==
    IF auth = NoAuth THEN Failure("unauthenticated", "Must be authenticated")
    ELSE IF fault.kind = "query"
    THEN Failure("internal", "Failed to get storage usage")
    ELSE LET docs == imageDocs(auth)
             counted == CountFiles(NoStats, docs, now)
             stats == [counted EXCEPT
                          !.totalSizeBytes = estimatedSize(counted.totalFiles)]
         IN [err |-> "none", msg |-> "", usage |-> stats, docs |-> docs,
             recommendations |-> generateStorageRecommendations(stats)]

\* one call of getStorageUsage takes effect
GetStorageUsage(callers) ==
    /\ runs < MaxRuns
    /\ runs' = runs + 1
    /\ \E auth \in callers :
        \E fault \in IF auth = NoAuth THEN {NoFault}
                     ELSE {NoFault, [kind |-> "query", id |-> "none"]} :
            /\ Inject(fault # NoFault)
            /\ last' = getStorageUsage(auth, fault) @@
                       [op |-> "getStorageUsage", uid |-> auth,
                        fault |-> fault, at |-> now]
    /\ UNCHANGED <<clockVars, ledgerVars, concVars, budget, entries, blobs,
                   userDocs, sweeps>>

\* ------------------------------------------------- scheduled sweep
RETENTION_DAYS == 90
UserOrder == <<"u1", "u2">>
Scheduler == "scheduler"

\* db.collection('users').get(): the user documents that exist
usersSnapshot == SelectSeq(UserOrder, LAMBDA u : userDocs[u].exists)

cutoffFor_UsesPreferences(userId) ==
    cutoffDate(now, IF userDocs[userId].storagePreferences.set
                    THEN userDocs[userId].storagePreferences.retentionDays
                    ELSE RETENTION_DAYS)

\* the cutoff applied to the entries of one user
cutoffFor(userId) == cutoffDate(now, RETENTION_DAYS)

RECURSIVE SweepUsers(_, _, _)
SweepUsers_StopsAtFailure(st, users, fault) ==
    IF users = <<>> THEN st
    ELSE LET userId == Head(users)
             files == filesToDelete(userId, cutoffFor(userId))
         IN IF fault = [kind |-> "query", id |-> userId]
            THEN [st EXCEPT !.errorCount = @ + 1]
            ELSE SweepUsers([DeleteFiles(st, files, fault, now)
                                EXCEPT !.files = @ \o files],
                            Tail(users), fault)

\* the loop over the user documents; a failing entries query is caught
\* per user
SweepUsers(st, users, fault) ==
    IF users = <<>> THEN st
    ELSE LET userId == Head(users)
             files == filesToDelete(userId, cutoffFor(userId))
             swept == IF fault = [kind |-> "query", id |-> userId]
                      THEN [st EXCEPT !.errorCount = @ + 1]
                      ELSE [DeleteFiles(st, files, fault, now)
                               EXCEPT !.files = @ \o files]
         IN SweepUsers(swept, Tail(users), fault)

cleanupOldImages(fault) ==
    IF fault.kind = "users"
    THEN [err |-> "internal", msg |-> "Cleanup failed", entries |-> entries,
          blobs |-> blobs, files |-> <<>>]
    ELSE LET st == SweepUsers([entries |-> entries, blobs |-> blobs,
                               deletedCount |-> 0, errorCount |-> 0,
                               files |-> <<>>],
                              usersSnapshot, fault)
         IN [err |-> "none", msg |-> "", deletedCount |-> st.deletedCount,
             errorCount |-> st.errorCount, entries |-> st.entries,
             blobs |-> st.blobs, files |-> st.files]

\* the operations that can fail in a run: listing the users, the entries
\* query of a listed user, the storage delete of a record whose reference
\* yields a path and the document update of a record whose blob is stored
ScheduledFaults ==
    LET listed == {usersSnapshot[i] : i \in DOMAIN usersSnapshot}
        Files(u) == filesToDelete(u, cutoffFor(u))
        found == UNION {{Files(u)[i] : i \in DOMAIN Files(u)} : u \in listed}
        Path(e) == filePath(entries[e].imageUrl.url)
    IN  {NoFault, [kind |-> "users", id |-> "none"]}
        \cup {[kind |-> "query", id |-> u] : u \in listed}
        \cup {[kind |-> "storage", id |-> e] : e \in {x \in found : Path(x).reached}}
        \cup {[kind |-> "db", id |-> e] :
                 e \in {x \in found : Path(x).reached /\ Path(x).value \in blobs}}

\* one run of the scheduled function takes effect
CleanupOldImages ==
    /\ runs < MaxRuns
    /\ runs' = runs + 1
    /\ \E fault \in ScheduledFaults :
        /\ Inject(fault # NoFault)
        /\ LET r == cleanupOldImages(fault)
           IN  /\ entries' = r.entries
               /\ blobs' = r.blobs
               /\ last' = [x \in DOMAIN r \ {"entries", "blobs"} |-> r[x]] @@
                          [op |-> "cleanupOldImages", uid |-> Scheduler,
                           fault |-> fault, at |-> now]
    /\ UNCHANGED <<clockVars, ledgerVars, concVars, budget, userDocs, sweeps>>

\* ------------------------------------------------- the subsystem
\* Every operation of the storage subsystem and of the quota ledger, as
\* whole invocations in any order.

ForeignUrl == Url(DownloadUrl("u2", "e3"))
PremiumPreferences ==
    [set |-> TRUE, storageTier |-> "premium", retentionDays |-> 365,
     imageQuality |-> 95, maxImageWidth |-> 1920, updatedAt |-> 0]

\* the day keys of the ledger at the instant of the sweeps
SweepDayKeys == {getDateKeyForUser(SweepNow, 0)}

\* u1 holds e1, older than ninety days, and e2, exactly ninety days old;
\* u2 holds e3, older than ninety days, under a premium policy
InitSubsystem ==
    /\ now = SweepNow
    /\ tzOffset = 0
    /\ usage = [u \in Users |-> [k \in SweepDayKeys |-> NoDoc]]
    /\ calls = [u \in Users |-> [k \in SweepDayKeys |-> 0]]
    /\ admits = [u \in Users |-> [k \in SweepDayKeys |-> 0]]
    /\ last = NoOutcome
    /\ budget = MaxAttempts
    /\ faults = 0
    /\ IdleConc
    /\ \E r1 \in {Url(DownloadUrl("u1", "e1")), ForeignUrl} :
          entries = [e \in EntryIds |->
              [createdAt |-> IF e = "e2"
                             THEN cutoffDate(SweepNow, DefaultRetentionDays)
                             ELSE cutoffDate(SweepNow, DefaultRetentionDays) - 1,
               imageUrl |-> IF e = "e1" THEN r1
                            ELSE Url(DownloadUrl(Owner(e), e)),
               imageDeletedAt |-> UnsetParam,
               calories |-> 450]]
    /\ blobs = {ObjectPath(Owner(e), e) :
                   e \in {x \in EntryIds :
                            entries[x].imageUrl = Url(DownloadUrl(Owner(x), x))}}
    /\ runs = 0
    /\ userDocs = [u \in Users |->
                     UserDoc(IF u = "u2" THEN PremiumPreferences ELSE NoPreferences)]
    /\ sweeps = <<>>

NextSubsystem ==
    \/ CleanupOldImages
    \/ CleanupUserImagesBy(Users, {[retentionDays |-> UnsetParam,
                                    dryRun |-> Param(FALSE)]})
    \/ GetStorageUsage(Users)
    \/ SetStoragePreferences({"u1"}, {[tier |-> Param("cost_optimized"),
                                       customRetentionDays |-> Param(30)]})
    \/ \E u \in Users : QuotaCheck(u, FALSE)
    \/ \E a \in Users : GetRemainingRequests(a, FALSE)

SpecSubsystem == InitSubsystem /\ [][NextSubsystem]_vars

\* ------------------------------------------------- the callables
\* The six callable functions, each called with or without a caller
\* identity, over a store that holds records, blobs, preferences and
\* counters.

Callers == {NoAuth, "u1"}
StoreFaults == {NoFault, [kind |-> "query", id |-> "none"],
                [kind |-> "db", id |-> "none"]}

InitCallable ==
    /\ now = SweepNow
    /\ tzOffset = 0
    /\ \E c \in {0, DAILY_REQUEST_LIMIT - 1} :
          /\ usage = [u \in Users |-> [k \in SweepDayKeys |->
                 IF c = 0 THEN NoDoc
                 ELSE [exists |-> TRUE, count |-> c, userId |-> u,
                       dateKey |-> k]]]
          /\ calls = [u \in Users |-> [k \in SweepDayKeys |-> c]]
          /\ admits = [u \in Users |-> [k \in SweepDayKeys |-> c]]
    /\ last = NoOutcome
    /\ budget = MaxAttempts
    /\ faults = 0
    /\ IdleConc
    /\ entries = [e \in EntryIds |->
          [createdAt |-> cutoffDate(SweepNow, DefaultRetentionDays) - 1,
           imageUrl |-> Url(DownloadUrl(Owner(e), e)),
           imageDeletedAt |-> UnsetParam,
           calories |-> 450]]
    /\ blobs = {ObjectPath(Owner(e), e) : e \in EntryIds}
    /\ runs = 0
    /\ userDocs = [u \in Users |-> UserDoc(NoPreferences)]
    /\ sweeps = <<>>

NextCallable ==
    \/ GetStorageUsage(Callers)
    \/ CleanupUserImagesBy(Callers, {[retentionDays |-> UnsetParam,
                                      dryRun |-> Param(FALSE)]})
    \/ SetStoragePreferences(Callers, {[tier |-> Param("premium"),
                                        customRetentionDays |-> UnsetParam]})
    \/ \E a \in Callers : GetRemainingRequests(a, FALSE)
    \/ AnalyzeMealFor(Callers, {"https://example.com/image.jpg"},
                      {[i \in 1 .. (maxRetries + 1) |-> "valid"]})
    \/ AnalyzeNaturalLanguageMealFor(Callers, {Text(Words(2))}, {"valid"})

SpecCallable == InitCallable /\ [][NextCallable]_vars

\* ------------------------------------------------- preference writes
\* Calls of setStoragePreferences by one user, whose user document exists
\* or not.

InitPrefs ==
    /\ now = SweepNow
    /\ tzOffset = 0
    /\ usage = [u \in Users |-> [k \in SweepDayKeys |-> NoDoc]]
    /\ calls = [u \in Users |-> [k \in SweepDayKeys |-> 0]]
    /\ admits = [u \in Users |-> [k \in SweepDayKeys |-> 0]]
    /\ last = NoOutcome
    /\ budget = 0
    /\ faults = 0
    /\ IdleConc
    /\ entries = [e \in EntryIds |->
          [createdAt |-> cutoffDate(SweepNow, DefaultRetentionDays) - 1,
           imageUrl |-> Url(DownloadUrl(Owner(e), e)),
           imageDeletedAt |-> UnsetParam,
           calories |-> 450]]
    /\ blobs = {ObjectPath(Owner(e), e) : e \in EntryIds}
    /\ runs = 0
    /\ \E doc \in {UserDoc(NoPreferences), NoUserDoc} :
          userDocs = [u \in Users |-> IF u = "u1" THEN doc
                                      ELSE UserDoc(NoPreferences)]
    /\ sweeps = <<>>

NextPrefs == SetStoragePreferences({"u1"}, PreferenceInputs)

SpecPrefs == InitPrefs /\ [][NextPrefs]_vars

\* ------------------------------------------------- usage analysis alone
\* Calls of getStorageUsage over records of every age around the three
\* boundaries, with or without an image reference, with or without a
\* creation time.

UsageNow == 400 * MinutesPerDay
BoundaryDays == {30, 90, 365}
UsageCreatedAts ==
    {UsageNow} \cup {UsageNow - d * MinutesPerDay - x :
                        d \in BoundaryDays, x \in {0, 1}}
Undated(imageUrl) ==
    [imageUrl |-> imageUrl, imageDeletedAt |-> UnsetParam, calories |-> 450]
Dated(imageUrl, createdAt) ==
    [createdAt |-> createdAt, imageUrl |-> imageUrl,
     imageDeletedAt |-> UnsetParam, calories |-> 450]

InitUsage ==
    /\ now = UsageNow
    /\ tzOffset = 0
    /\ usage = [u \in Users |-> [k \in DayKeys |-> NoDoc]]
    /\ calls = [u \in Users |-> [k \in DayKeys |-> 0]]
    /\ admits = [u \in Users |-> [k \in DayKeys |-> 0]]
    /\ last = NoOutcome
    /\ budget = 0
    /\ faults = 0
    /\ IdleConc
    /\ \E r1 \in {Null, Url(DownloadUrl("u1", "e1"))},
          r2 \in {Null, Url(DownloadUrl("u1", "e2"))} :
       \E d1 \in {Undated(r1)} \cup {Dated(r1, c) : c \in UsageCreatedAts},
          d2 \in {Undated(r2), Dated(r2, UsageNow - 30 * MinutesPerDay),
                  Dated(r2, UsageNow - 365 * MinutesPerDay - 1)} :
          entries = [e \in EntryIds |->
                        IF e = "e1" THEN d1
                        ELSE IF e = "e2" THEN d2
                        ELSE Dated(Url(DownloadUrl("u2", "e3")), UsageNow)]
    /\ blobs = {ObjectPath(Owner(e), e) :
                   e \in {x \in EntryIds : ~entries[x].imageUrl.isNull}}
    /\ runs = 0
    /\ userDocs = [u \in Users |-> UserDoc(NoPreferences)]
    /\ sweeps = <<>>

NextUsage == GetStorageUsage(Users \cup {NoAuth})

SpecUsage == InitUsage /\ [][NextUsage]_vars

\* ------------------------------------------------- recommendations alone
\* generateStorageRecommendations applied to statistics on either side of
\* each rule's threshold, of the shape getStorageUsage produces.

FileCounts == {101, 1000, 1001, 403298, 403299}
StatsInputs ==
    {[totalFiles |-> n, totalSizeBytes |-> estimatedSize(n),
      oldestFileDate |-> Param(0), newestFileDate |-> Param(UsageNow),
      filesByAge |-> [last30Days |-> n - old - mid - recent,
                      last90Days |-> recent,
                      last365Days |-> mid, older |-> old]] :
        n \in FileCounts, old \in {0, 1}, mid \in {0, 100, 101},
        recent \in {0, 1, 2}}
AsUsage(stats) == [op |-> "usage", usage |-> stats]

InitRecommend ==
    /\ now = UsageNow
    /\ tzOffset = 0
    /\ usage = [u \in Users |-> [k \in DayKeys |-> NoDoc]]
    /\ calls = [u \in Users |-> [k \in DayKeys |-> 0]]
    /\ admits = [u \in Users |-> [k \in DayKeys |-> 0]]
    /\ \E stats \in StatsInputs :
        /\ stats.filesByAge.last30Days >= 0
        /\ last = AsUsage(stats)
    /\ budget = 0
    /\ faults = 0
    /\ IdleConc
    /\ entries = [e \in EntryIds |-> Dated(Null, UsageNow)]
    /\ blobs = {}
    /\ runs = 0
    /\ userDocs = [u \in Users |-> UserDoc(NoPreferences)]
    /\ sweeps = <<>>

\* recommendations: generateStorageRecommendations(stats)
GenerateStorageRecommendations ==
    /\ last.op = "usage"
    /\ last' = [op |-> "generateStorageRecommendations",
                usage |-> last.usage,
                recommendations |-> generateStorageRecommendations(last.usage)]
    /\ UNCHANGED <<clockVars, ledgerVars, concVars, histVars, sweepVars>>

NextRecommend == GenerateStorageRecommendations

SpecRecommend == InitRecommend /\ [][NextRecommend]_vars

\* ------------------------------------------------- the counters
\* Every operation that runs beside the quota ledger, and a client that
\* tries to write a counter, over counters that are absent, one below the
\* ceiling or at it.

RulesAllow_OwnerAnywhere(collection, auth, userId) ==
    auth # NoAuth /\ auth = userId

\* firestore.rules: the owner may read and write users/{userId} and its
\* entries, user_data/{userId} and user_collections/{userId}/items;
\* every other path is denied
RulesAllow(collection, auth, userId) ==
    IF collection \in {"users", "entries", "user_data", "user_collections"}
    THEN auth # NoAuth /\ auth = userId
    ELSE FALSE

\* a client writes usage_tracking/{userId}/daily/{dateKey} through the SDK
ClientWrite(auth, userId) ==
    /\ runs < MaxRuns
    /\ runs' = runs + 1
    /\ LET dateKey == getDateKeyForUser(now, tzOffset)
           allowed == RulesAllow("usage_tracking", auth, userId)
       IN  /\ usage' = IF allowed
                       THEN [usage EXCEPT ![userId][dateKey] =
                               [exists |-> TRUE, count |-> 0,
                                userId |-> userId, dateKey |-> dateKey]]
                       ELSE usage
           /\ last' = [op |-> "clientWrite", uid |-> auth, target |-> userId,
                       key |-> dateKey,
                       err |-> IF allowed THEN "none" ELSE "permission-denied"]
    /\ UNCHANGED <<clockVars, calls, admits, concVars, histVars, entries,
                   blobs, userDocs, sweeps>>

InitCounters ==
    /\ now = SweepNow
    /\ tzOffset = 0
    /\ \E c \in {0, DAILY_REQUEST_LIMIT - 1, DAILY_REQUEST_LIMIT} :
          LET Used(u) == IF u = "u1" THEN c ELSE 0
          IN /\ usage = [u \in Users |-> [k \in SweepDayKeys |->
                    IF Used(u) = 0 THEN NoDoc
                    ELSE [exists |-> TRUE, count |-> Used(u), userId |-> u,
                          dateKey |-> k]]]
             /\ calls = [u \in Users |-> [k \in SweepDayKeys |-> Used(u)]]
             /\ admits = [u \in Users |-> [k \in SweepDayKeys |-> Used(u)]]
    /\ last = NoOutcome
    /\ budget = MaxAttempts
    /\ faults = 0
    /\ IdleConc
    /\ entries = [e \in EntryIds |->
          Dated(Url(DownloadUrl(Owner(e), e)),
                IF e = "e1" THEN cutoffDate(SweepNow, DefaultRetentionDays) - 1
                ELSE SweepNow)]
    /\ blobs = {ObjectPath(Owner(e), e) : e \in EntryIds}
    /\ runs = 0
    /\ userDocs = [u \in Users |-> UserDoc(NoPreferences)]
    /\ sweeps = <<>>

NextCounters ==
    \/ \E u \in Users, f \in BOOLEAN : QuotaCheck(u, f)
    \/ GetRemainingRequests("u1", FALSE)
    \/ AnalyzeMealFor({"u1"}, {"https://example.com/image.jpg"},
                      {[i \in 1 .. (maxRetries + 1) |-> "timeout"]})
    \/ AnalyzeNaturalLanguageMealFor({"u1"}, {Text(Words(2))}, {"invalid"})
    \/ CleanupOldImages
    \/ CleanupUserImagesBy({"u1"}, {[retentionDays |-> UnsetParam,
                                     dryRun |-> Param(FALSE)]})
    \/ GetStorageUsage({"u1"})
    \/ SetStoragePreferences({"u1"}, {[tier |-> Param("premium"),
                                       customRetentionDays |-> UnsetParam]})
    \/ ClientWrite("u1", "u1")

SpecCounters == InitCounters /\ [][NextCounters]_vars

\* ------------------------------------------------- deleting a meal
\* The dashboard's delete button: handleDeleteMeal run by the signed-in
\* user on one of that user's meals.

NoEntry == [exists |-> FALSE]
\* if (mealData.imageUrl): null and the empty string are falsy
Truthy(imageUrl) == ~imageUrl.isNull /\ imageUrl.url # <<>>

\* new URL(imageUrl).pathname: the pieces from the slash after the host
\* up to the query
pathname(s) ==
    IF Len(s) < 4 \/ SubSeq(s, 1, 3) # <<"https:", "/", "/">>
    THEN [threw |-> TRUE, value |-> <<>>]
    ELSE LET marks == {i \in 5 .. Len(s) : s[i] = "?"}
             end == IF marks = {} THEN Len(s)
                    ELSE (CHOOSE i \in marks : \A j \in marks : i <= j) - 1
         IN [threw |-> FALSE,
             value |-> IF Len(s) < 5 THEN <<"/">> ELSE SubSeq(s, 5, end)]

\* decodeURIComponent(url.pathname.split('/o/')[1].split('?')[0])
imagePath(imageUrl) ==
    LET p == pathname(imageUrl)
        At(q) == {i \in 1 .. (Len(q) - 2) :
                     q[i] = "/" /\ q[i + 1] = "o" /\ q[i + 2] = "/"}
        First(q) == CHOOSE i \in At(q) : \A j \in At(q) : i <= j
    IN  IF p.threw \/ At(p.value) = {}
        THEN [threw |-> TRUE, value |-> <<>>]
        ELSE LET rest == SubSeq(p.value, First(p.value) + 3, Len(p.value))
                 part == IF At(rest) = {} THEN rest
                         ELSE SubSeq(rest, 1, First(rest) - 1)
             IN decodeURIComponent(split(part, "?")[1])

DeleteFaults == {NoFault} \cup
    {[kind |-> k, id |-> "none"] : k \in {"get", "storage", "db"}}

handleDeleteMeal_ImageFailureAborts(user, mealId, fault) ==
    LET same == [entries |-> entries, blobs |-> blobs]
        mealData == entries[mealId]
    IN  IF user = NoAuth THEN same @@ [log |-> <<>>, alerted |-> FALSE]
        ELSE IF fault.kind = "get"
        THEN same @@ [log |-> <<"getDoc">>, alerted |-> TRUE]
        ELSE
        LET attempted == mealData # NoEntry /\ Truthy(mealData.imageUrl)
            path == IF attempted THEN imagePath(mealData.imageUrl.url)
                    ELSE [threw |-> TRUE, value |-> <<>>]
            called == attempted /\ ~path.threw
            deleted == called /\ fault.kind # "storage" /\ path.value \in blobs
            lg == <<"getDoc">>
                  \o (IF called THEN <<"deleteObject">> ELSE <<>>)
        IN  IF attempted /\ ~deleted
            THEN same @@ [log |-> lg, alerted |-> TRUE]
            ELSE IF fault.kind = "db"
            THEN [entries |-> entries,
                  blobs |-> IF deleted THEN blobs \ {path.value} ELSE blobs,
                  log |-> lg \o <<"deleteDoc">>, alerted |-> TRUE]
            ELSE [entries |-> [entries EXCEPT ![mealId] = NoEntry],
                  blobs |-> IF deleted THEN blobs \ {path.value} ELSE blobs,
                  log |-> lg \o <<"deleteDoc">>, alerted |-> FALSE]

\* handleDeleteMeal: the calls it makes in their order, the store it
\* leaves and whether it alerts
handleDeleteMeal(user, mealId, fault) ==
    LET same == [entries |-> entries, blobs |-> blobs]
        mealData == entries[mealId]
    IN  IF user = NoAuth THEN same @@ [log |-> <<>>, alerted |-> FALSE]
        ELSE IF fault.kind = "get"
        THEN same @@ [log |-> <<"getDoc">>, alerted |-> TRUE]
        ELSE
        LET attempted == mealData # NoEntry /\ Truthy(mealData.imageUrl)
            path == IF attempted THEN imagePath(mealData.imageUrl.url)
                    ELSE [threw |-> TRUE, value |-> <<>>]
            called == attempted /\ ~path.threw
            deleted == called /\ fault.kind # "storage" /\ path.value \in blobs
            lg == <<"getDoc">>
                  \o (IF called THEN <<"deleteObject">> ELSE <<>>)
                  \o <<"deleteDoc">>
            left == IF deleted THEN blobs \ {path.value} ELSE blobs
        IN  IF fault.kind = "db"
            THEN [entries |-> entries, blobs |-> left, log |-> lg,
                  alerted |-> TRUE]
            ELSE [entries |-> [entries EXCEPT ![mealId] = NoEntry],
                  blobs |-> left, log |-> lg, alerted |-> FALSE]

\* one press of the delete button takes effect
HandleDeleteMeal(user, mealId) ==
    /\ runs < MaxRuns
    /\ runs' = runs + 1
    /\ \E fault \in IF user = NoAuth THEN {NoFault} ELSE DeleteFaults :
        /\ Inject(fault # NoFault)
        /\ LET r == handleDeleteMeal(user, mealId, fault)
           IN  /\ entries' = r.entries
               /\ blobs' = r.blobs
               /\ last' = [op |-> "handleDeleteMeal", uid |-> user,
                           mealId |-> mealId, fault |-> fault, log |-> r.log,
                           alerted |-> r.alerted, before |-> entries[mealId],
                           blobs |-> blobs]
    /\ UNCHANGED <<clockVars, ledgerVars, concVars, budget, userDocs, sweeps>>

MealRefs ==
    ImageRefs("e1") \cup {Url(<<>>), Url(<<"photo.jpg">>)}

InitDelete ==
    /\ now = SweepNow
    /\ tzOffset = 0
    /\ usage = [u \in Users |-> [k \in SweepDayKeys |-> NoDoc]]
    /\ calls = [u \in Users |-> [k \in SweepDayKeys |-> 0]]
    /\ admits = [u \in Users |-> [k \in SweepDayKeys |-> 0]]
    /\ last = NoOutcome
    /\ budget = 0
    /\ faults = 0
    /\ IdleConc
    /\ \E r1 \in MealRefs :
          entries = [e \in EntryIds |->
                        Dated(IF e = "e1" THEN r1
                              ELSE Url(DownloadUrl(Owner(e), e)), SweepNow)]
    /\ \E gone \in SUBSET {"e1"} :
          blobs = {ObjectPath(Owner(e), e) :
                     e \in {x \in EntryIds \ gone :
                        entries[x].imageUrl = Url(DownloadUrl(Owner(x), x))}}
    /\ runs = 0
    /\ userDocs = [u \in Users |-> UserDoc(NoPreferences)]
    /\ sweeps = <<>>

NextDelete ==
    \E user \in {"u1", NoAuth}, mealId \in {"e1", "e2"} :
        HandleDeleteMeal(user, mealId)

SpecDelete == InitDelete /\ [][NextDelete]_vars

\* ------------------------------------------------- photo upload
\* The dashboard's photo flow of one signed-in user: handleFileSelected
\* uploads the image and opens the follow-up dialog, whose two buttons
\* run handlePhotoFollowupSave and handlePhotoFollowupSkip. The dialog's
\* photoImageUrl is carried in the outcome of the last handler.

Uploader == "u1"
MealSlots == <<"e1", "e2">>
\* what the call of analyzeMeal gives the client: a response with a
\* result, a response without one, or a rejection with this code
AnalysisResults ==
    {"ok", "no-result", "resource-exhausted", "internal",
     "deadline-exceeded", "invalid-argument"}
UploadFaults == {NoFault} \cup
    {[kind |-> k, id |-> "none"] : k \in {"upload", "url"}}
Dashboard(photoImageUrl) == [op |-> "dashboard", photoImageUrl |-> photoImageUrl]

\* the next document id addDoc draws, and the next file name
FreeSlots == SelectSeq(MealSlots, LAMBDA e :
                 entries[e] = NoEntry /\ ObjectPath(Uploader, e) \notin blobs)
UnsavedSlots == SelectSeq(MealSlots, LAMBDA e : entries[e] = NoEntry)

\* handleFileSelected: uploadBytes, getDownloadURL, setPhotoImageUrl
handleFileSelected(fault) ==
    LET e == Head(FreeSlots)
    IN  IF fault.kind = "upload"
        THEN [blobs |-> blobs, photoImageUrl |-> last.photoImageUrl,
              log |-> <<"uploadBytes">>, alerted |-> TRUE]
        ELSE IF fault.kind = "url"
        THEN [blobs |-> blobs \cup {ObjectPath(Uploader, e)},
              photoImageUrl |-> last.photoImageUrl,
              log |-> <<"uploadBytes", "getDownloadURL">>, alerted |-> TRUE]
        ELSE [blobs |-> blobs \cup {ObjectPath(Uploader, e)},
              photoImageUrl |-> Url(DownloadUrl(Uploader, e)),
              log |-> <<"uploadBytes", "getDownloadURL">>, alerted |-> FALSE]

HandleFileSelected ==
    /\ runs <= MaxRuns
    /\ runs' = runs + 1
    /\ FreeSlots # <<>>
    /\ \E fault \in UploadFaults :
        /\ Inject(fault # NoFault)
        /\ LET r == handleFileSelected(fault)
           IN  /\ blobs' = r.blobs
               /\ last' = [op |-> "handleFileSelected", fault |-> fault,
                           photoImageUrl |-> r.photoImageUrl, log |-> r.log,
                           alerted |-> r.alerted, saved |-> FALSE,
                           photo |-> r.photoImageUrl]
    /\ UNCHANGED <<clockVars, ledgerVars, concVars, budget, entries, userDocs,
                   sweeps>>

\* the analysis and the write of the entry that both buttons share
SaveEntry(photoImageUrl, result, fault) ==
    IF result = "ok"
    THEN IF fault.kind = "db"
         THEN [saved |-> FALSE, entries |-> entries, code |-> "unavailable",
               log |-> <<"analyzeMeal", "addDoc">>]
         ELSE [saved |-> TRUE,
               entries |-> [entries EXCEPT ![Head(UnsavedSlots)] =
                               Dated(photoImageUrl, now)],
               code |-> "none", log |-> <<"analyzeMeal", "addDoc">>]
    ELSE [saved |-> FALSE, entries |-> entries,
          code |-> IF result = "no-result" THEN "none" ELSE result,
          log |-> <<"analyzeMeal">>]

\* handlePhotoFollowupSave: on any failure of the analysis or of the write
\* the inner catch deletes the uploaded image and then sorts the error
handlePhotoFollowupSave(photoImageUrl, result, fault) ==
    LET w == SaveEntry(photoImageUrl, result, fault)
        path == imagePath(photoImageUrl.url)
        called == ~path.threw
        deleted == called /\ fault.kind # "storage" /\ path.value \in blobs
        handled == w.code \in {"resource-exhausted", "internal"}
    IN  IF w.saved
        THEN [entries |-> w.entries, blobs |-> blobs, log |-> w.log,
              saved |-> TRUE, alerted |-> FALSE, photoImageUrl |-> Null]
        ELSE [entries |-> entries,
              blobs |-> IF deleted THEN blobs \ {path.value} ELSE blobs,
              log |-> w.log \o (IF called THEN <<"deleteObject">> ELSE <<>>),
              saved |-> FALSE, alerted |-> TRUE,
              photoImageUrl |-> IF handled THEN Null ELSE photoImageUrl]

\* handlePhotoFollowupSkip: one try block whose catch alerts
handlePhotoFollowupSkip(photoImageUrl, result, fault) ==
    LET w == SaveEntry(photoImageUrl, result, fault)
    IN  IF w.saved
        THEN [entries |-> w.entries, blobs |-> blobs, log |-> w.log,
              saved |-> TRUE, alerted |-> FALSE, photoImageUrl |-> Null]
        ELSE [entries |-> entries, blobs |-> blobs, log |-> w.log,
              saved |-> FALSE, alerted |-> TRUE,
              photoImageUrl |-> photoImageUrl]

\* one press of a button of the dialog takes effect
Followup(name, r, photo, result, fault) ==
    /\ runs <= MaxRuns
    /\ runs' = runs + 1
    /\ Inject(fault # NoFault)
    /\ entries' = r.entries
    /\ blobs' = r.blobs
    /\ last' = [op |-> name, fault |-> fault, result |-> result,
                photoImageUrl |-> r.photoImageUrl, log |-> r.log,
                alerted |-> r.alerted, saved |-> r.saved, photo |-> photo]
    /\ UNCHANGED <<clockVars, ledgerVars, concVars, budget, userDocs, sweeps>>

FollowupInputs(result) ==
    IF result = "ok" THEN {NoFault, [kind |-> "db", id |-> "none"]}
    ELSE {NoFault, [kind |-> "storage", id |-> "none"]}

HandlePhotoFollowupSave ==
    /\ ~last.photoImageUrl.isNull
    /\ UnsavedSlots # <<>>
    /\ \E result \in AnalysisResults : \E fault \in FollowupInputs(result) :
          Followup("handlePhotoFollowupSave",
                   handlePhotoFollowupSave(last.photoImageUrl, result, fault),
                   last.photoImageUrl, result, fault)

HandlePhotoFollowupSkip ==
    /\ ~last.photoImageUrl.isNull
    /\ UnsavedSlots # <<>>
    /\ \E result \in AnalysisResults : \E fault \in FollowupInputs(result) :
          Followup("handlePhotoFollowupSkip",
                   handlePhotoFollowupSkip(last.photoImageUrl, result, fault),
                   last.photoImageUrl, result, fault)

InitUpload ==
    /\ now = SweepNow
    /\ tzOffset = 0
    /\ usage = [u \in Users |-> [k \in SweepDayKeys |-> NoDoc]]
    /\ calls = [u \in Users |-> [k \in SweepDayKeys |-> 0]]
    /\ admits = [u \in Users |-> [k \in SweepDayKeys |-> 0]]
    /\ last = Dashboard(Null)
    /\ budget = 0
    /\ faults = 0
    /\ IdleConc
    /\ entries = [e \in EntryIds |->
                    IF Owner(e) = Uploader THEN NoEntry
                    ELSE Dated(Url(DownloadUrl(Owner(e), e)), SweepNow)]
    /\ blobs = {ObjectPath(Owner(e), e) :
                   e \in {x \in EntryIds : Owner(x) # Uploader}}
    /\ runs = 0
    /\ userDocs = [u \in Users |-> UserDoc(NoPreferences)]
    /\ sweeps = <<>>

NextUpload ==
    \/ HandleFileSelected
    \/ HandlePhotoFollowupSave
    \/ HandlePhotoFollowupSkip

SpecUpload == InitUpload /\ [][NextUpload]_vars

\* ------------------------------------------------- the sweep, step by step
\* One invocation of cleanupUserImages({dryRun: false}) as the steps the
\* event loop interleaves with other invocations: the entries query, then
\* per file of the snapshot the storage delete and the document update.
\* The loop works on the references of its own snapshot.

Sweepers == 1 .. NumSweeps
SweepCaller == "u1"
IdleSweeper ==
    [pc |-> "idle", files |-> <<>>, cutoff |-> 0,
     deletedCount |-> 0, errorCount |-> 0]

\* entriesQuery.get() and the list built from the snapshot
SweepQuery(i) ==
    /\ sweeps[i].pc = "idle"
    /\ LET cutoff == cutoffDate(now, DefaultRetentionDays)
           found == filesToDelete(SweepCaller, cutoff)
       IN sweeps' = [sweeps EXCEPT ![i] =
              [@ EXCEPT !.pc = "loop", !.cutoff = cutoff,
                        !.files = [j \in DOMAIN found |->
                                      [docId |-> found[j],
                                       imageUrl |-> entries[found[j]].imageUrl.url]]]]
    /\ UNCHANGED <<clockVars, ledgerVars, concVars, last, histVars, entries,
                   blobs, runs, userDocs>>

\* the references the records of the model hold
KnownUrls ==
    {r.url : r \in (UNION {ImageRefs(e) : e \in EntryIds}) \ {Null}}

\* the path extraction of the loop body for each of them: whether an 'o'
\* segment with a successor is found, and the decoded path
parsedUrl ==
    [imageUrl \in KnownUrls |->
        LET urlParts == split(imageUrl, "/")
            pathStart == findIndex(urlParts) + 1
        IN  [found |-> pathStart > 0 /\ pathStart < Len(urlParts),
             filePath |-> filePath(imageUrl)]]

\* the head of the loop body up to and including file.delete()
SweepDelete(i) ==
    /\ sweeps[i].pc = "loop" /\ sweeps[i].files # <<>>
    /\ LET parsed == parsedUrl[Head(sweeps[i].files).imageUrl]
           Skipped == [sweeps EXCEPT ![i].files = Tail(@)]
           Caught == [sweeps EXCEPT ![i].files = Tail(@),
                                    ![i].errorCount = @ + 1]
       IN  IF ~parsed.found
           THEN sweeps' = Skipped /\ blobs' = blobs
           ELSE IF ~parsed.filePath.reached \/ parsed.filePath.value \notin blobs
           THEN sweeps' = Caught /\ blobs' = blobs
           ELSE /\ blobs' = blobs \ {parsed.filePath.value}
                /\ sweeps' = [sweeps EXCEPT ![i].pc = "update"]
    /\ UNCHANGED <<clockVars, ledgerVars, concVars, last, histVars, entries,
                   runs, userDocs>>

updatedEntry_KeepsReference(entry, at) ==
    [entry EXCEPT !.imageDeletedAt = Param(at)]

\* update({imageUrl: null, imageDeletedAt: new Date()})
updatedEntry(entry, at) ==
    [entry EXCEPT !.imageUrl = Null, !.imageDeletedAt = Param(at)]

\* the document update of the file whose blob this invocation deleted
SweepUpdate(i) ==
    /\ sweeps[i].pc = "update"
    /\ LET file == Head(sweeps[i].files)
       IN entries' = [entries EXCEPT ![file.docId] = updatedEntry(@, now)]
    /\ sweeps' = [sweeps EXCEPT ![i].pc = "loop", ![i].files = Tail(@),
                                ![i].deletedCount = @ + 1]
    /\ UNCHANGED <<clockVars, ledgerVars, concVars, last, histVars, blobs,
                   runs, userDocs>>

\* the return of the summary
SweepReturn(i) ==
    /\ sweeps[i].pc = "loop" /\ sweeps[i].files = <<>>
    /\ sweeps' = [sweeps EXCEPT ![i].pc = "done"]
    /\ UNCHANGED <<clockVars, ledgerVars, concVars, last, histVars, entries,
                   blobs, runs, userDocs>>

\* the platform ends an invocation that is under way
SweepKill(i) ==
    /\ sweeps[i].pc \in {"loop", "update"}
    /\ sweeps' = [sweeps EXCEPT ![i].pc = "killed"]
    /\ UNCHANGED <<clockVars, ledgerVars, concVars, last, histVars, entries,
                   blobs, runs, userDocs>>

\* the records at the start: e1 and e2 belong to the caller; e1 is older
\* than the cutoff, e2 is older or exactly at it; last keeps the start
InitSteps ==
    /\ now = SweepNow
    /\ tzOffset = 0
    /\ usage = [u \in Users |-> [k \in DayKeys |-> NoDoc]]
    /\ calls = [u \in Users |-> [k \in DayKeys |-> 0]]
    /\ admits = [u \in Users |-> [k \in DayKeys |-> 0]]
    /\ budget = 0
    /\ faults = 0
    /\ IdleConc
    /\ \E r1 \in {Url(DownloadUrl("u1", "e1")),
                  Url(<<"https:", "/", "/", "example.com", "/", "photo.jpg">>),
                  Url(Prefix \o <<"o", "/", "%", "zz.jpg">>)},
          c2 \in {cutoffDate(SweepNow, DefaultRetentionDays) - 1,
                  cutoffDate(SweepNow, DefaultRetentionDays)} :
          entries = [e \in EntryIds |->
              [createdAt |-> IF e = "e2" THEN c2
                             ELSE cutoffDate(SweepNow, DefaultRetentionDays) - 1,
               imageUrl |-> IF e = "e1" THEN r1
                            ELSE Url(DownloadUrl(Owner(e), e)),
               imageDeletedAt |-> UnsetParam,
               calories |-> 450]]
    /\ blobs = {ObjectPath(Owner(e), e) :
                   e \in {x \in EntryIds :
                            entries[x].imageUrl = Url(DownloadUrl(Owner(x), x))}}
    /\ runs = 0
    /\ userDocs = [u \in Users |-> UserDoc(NoPreferences)]
    /\ sweeps = [i \in Sweepers |-> IdleSweeper]
    /\ last = [op |-> "start", entries |-> entries, blobs |-> blobs]

\* concurrent invocations for one user with one cutoff
NextRace ==
    \E i \in Sweepers :
        \/ SweepQuery(i)
        \/ SweepDelete(i)
        \/ SweepUpdate(i)
        \/ SweepReturn(i)

SpecRace == InitSteps /\ [][NextRace]_vars /\ WF_vars(NextRace)

\* invocations that can be killed at any point, each starting when every
\* earlier one has ended
Ended(i) == sweeps[i].pc \in {"done", "killed"}

SweepStart(i) ==
    /\ \A h \in 1 .. i - 1 : Ended(h)
    /\ SweepQuery(i)

NextHeal ==
    \E i \in Sweepers :
        \/ SweepStart(i)
        \/ SweepDelete(i)
        \/ SweepUpdate(i)
        \/ SweepReturn(i)
        \/ SweepKill(i)

SpecHeal == InitSteps /\ [][NextHeal]_vars

\* ---------------------------------------------------------------- claims

IsQuotaCheck == last.op = "checkAndIncrementUsage"

AllDone == \A c \in Calls : txn[c].pc = "done"
CallsOn(u, k) == {c \in Calls : txn[c].pc # "idle" /\ txn[c].uid = u /\ txn[c].key = k}
AdmittedOn(u, k) == {c \in CallsOn(u, k) : txn[c].pc = "done" /\ txn[c].ret}

C2_SequentialAdmission ==
    /\ \A u \in Users, k \in DayKeys :
          /\ admits[u][k] = Min(calls[u][k], DAILY_REQUEST_LIMIT)
          /\ CurrentCount(usage[u][k]) = Min(calls[u][k], DAILY_REQUEST_LIMIT)
          /\ usage[u][k].exists <=> calls[u][k] > 0
    /\ IsQuotaCheck =>
          /\ last.ret <=> calls[last.uid][last.key] <= DAILY_REQUEST_LIMIT
          /\ last.pre = Min(calls[last.uid][last.key] - 1, DAILY_REQUEST_LIMIT)

\* an eleventh check on one counter has been denied
C2_Witness ==
    /\ IsQuotaCheck /\ ~last.ret
    /\ calls[last.uid][last.key] = DAILY_REQUEST_LIMIT + 1
    /\ usage[last.uid][last.key].count = DAILY_REQUEST_LIMIT

IsRemaining == last.op = "getRemainingRequests" /\ last.uid # NoAuth
                  /\ last.err = "none"

\* C3: getRemainingRequests of an authenticated caller reports used = the
\* count of the caller's counter of the current day key (0 when the
\* document is absent), total = 10, remaining = max(0, 10 - used), which is
\* 10 - K after K admissions, and it never creates or changes a counter.
C3_RemainingReadOnly ==
    /\ [](IsRemaining =>
            /\ last.dateKey = getDateKeyForUser(last.at, tzOffset)
            /\ last.used = CurrentCount(usage[last.uid][last.dateKey])
            /\ ~usage[last.uid][last.dateKey].exists => last.used = 0
            /\ last.total = DAILY_REQUEST_LIMIT
            /\ last.remaining = Max(0, DAILY_REQUEST_LIMIT - last.used)
            /\ last.remaining = DAILY_REQUEST_LIMIT - admits[last.uid][last.dateKey])
    /\ [][last'.op = "getRemainingRequests" => usage' = usage]_vars

\* the query has been answered after three admissions, and for a day
\* without a counter document
C3_Witness ==
    /\ IsRemaining
    /\ last.used = 3 /\ last.remaining = 7
    /\ \E k \in DayKeys : ~usage[last.uid][k].exists

\* the query has been answered for a caller without a counter document
C3_WitnessAbsent ==
    /\ IsRemaining
    /\ ~usage[last.uid][last.dateKey].exists
    /\ last.used = 0 /\ last.remaining = DAILY_REQUEST_LIMIT

\* C4: when the transaction of checkAndIncrementUsage fails, the call
\* returns false, raises nothing to its caller and leaves every counter
\* unchanged; no admission exists without a committed increment.
C4_FailClosed ==
    /\ [](\A u \in Users, k \in DayKeys :
            admits[u][k] = CurrentCount(usage[u][k]))
    /\ [](IsQuotaCheck => ~last.threw)
    /\ [][(calls' # calls /\ last'.failed) =>
            (~last'.ret /\ ~last'.threw /\ usage' = usage)]_vars

\* a check whose transaction failed has returned while slots remained
C4_Witness ==
    /\ IsQuotaCheck /\ last.failed /\ ~last.ret
    /\ last.pre < DAILY_REQUEST_LIMIT
    /\ calls[last.uid][last.key] > admits[last.uid][last.key]

\* C5: the counters of different days of one user are independent: a
\* check addresses the counter of its own day key only, its outcome
\* depends on that counter alone, and no other counter changes, so a user
\* who exhausted day D is admitted again on day D+1.
C5_DaysIndependent ==
    [][calls' # calls =>
        LET u == last'.uid
            k == last'.key
        IN /\ k = getDateKeyForUser(now, tzOffset)
           /\ last'.ret <=> CurrentCount(usage[u][k]) < DAILY_REQUEST_LIMIT
           /\ \A v \in Users, d \in DayKeys :
                 <<v, d>> # <<u, k>> => usage'[v][d] = usage[v][d]]_vars

\* a user whose previous day is exhausted has been admitted on the next
C5_Witness ==
    /\ IsQuotaCheck /\ last.ret
    /\ last.key > 0
    /\ usage[last.uid][last.key - 1].exists
    /\ usage[last.uid][last.key - 1].count = DAILY_REQUEST_LIMIT
    /\ usage[last.uid][last.key].count = 1

\* C6: for every call instant and every timezone offset of the machine,
\* the day key used by checkAndIncrementUsage and by getRemainingRequests
\* is the UTC calendar date of the instant.
C6_KeyIsUtcDate ==
    /\ IsQuotaCheck => last.key = UtcDay(last.at)
    /\ IsRemaining => last.dateKey = UtcDay(last.at)

IsAnalysis == last.op \in {"analyzeMeal", "analyzeNaturalLanguageMeal"}
Occurrences(log, x) == Cardinality({i \in DOMAIN log : log[i] = x})

\* C7: in every analysis attempt of an authenticated caller (analyzeMeal,
\* analyzeNaturalLanguageMeal) checkAndIncrementUsage is invoked exactly
\* once and before the first call of the external model, also when the
\* model call is retried; the model is never called in an attempt whose
\* quota check returned false or failed.
C7_QuotaOncePerAttempt ==
    /\ [](IsAnalysis /\ last.uid # NoAuth =>
            /\ last.checked
            /\ Occurrences(last.log, "quota") = 1
            /\ last.log[1] = "quota"
            /\ (~last.ret \/ last.failed) => Occurrences(last.log, "model") = 0)
    /\ [][(budget' # budget /\ last'.uid # NoAuth) =>
            calls' = [calls EXCEPT ![last'.uid][last'.key] = @ + 1]]_vars

\* an image analysis whose model call was retried until the retries ran
\* out has made one quota check and maxRetries + 1 model calls
C7_Witness ==
    /\ last.op = "analyzeMeal" /\ last.checked /\ last.ret
    /\ Occurrences(last.log, "model") = maxRetries + 1
    /\ Occurrences(last.log, "quota") = 1

\* C8: when checkAndIncrementUsage returns false for an authenticated
\* analysis request, the handler rejects with 'resource-exhausted' and the
\* message 'Daily API limit reached. Please use manual entry for
\* additional meals today.'
C8_LimitReachedError ==
    (IsAnalysis /\ last.checked /\ ~last.ret /\ ~last.failed) =>
        /\ last.err = LimitReached.err
        /\ last.msg = LimitReached.msg

IsSweep == last.op = "cleanupUserImages"
DryRunAsked ==
    IsSweep /\ last.uid # NoAuth /\ last.data.dryRun \in {UnsetFlag, Param(TRUE)}
OlderWithImage(u, cutoff) ==
    {e \in EntryIds : /\ Owner(e) = u
                      /\ entries[e].createdAt < cutoff
                      /\ ~entries[e].imageUrl.isNull}

IsRealSweep == IsSweep /\ last.err = "none" /\ last.action = "cleanup-completed"
\* the reference holds '/o/' followed by a non-empty object path
HasObjectPath(url) ==
    \E i \in 1 .. (Len(url) - 3) :
        /\ url[i] = "/" /\ url[i + 1] = "o" /\ url[i + 2] = "/"
        /\ url[i + 3] \notin {"/", "?"}

\* C10: in a real sweep a candidate whose image reference cannot be parsed
\* into an object path is counted in errorCount, and deletedCount +
\* errorCount equals the number of candidates selected by the query.
C10_EveryCandidateCounted ==
    IsRealSweep =>
        /\ last.deletedCount + last.errorCount = Len(last.files)
        /\ last.errorCount >=
              Cardinality({i \in DOMAIN last.files :
                  /\ ~entries[last.files[i]].imageUrl.isNull
                  /\ ~HasObjectPath(entries[last.files[i]].imageUrl.url)})

\* the record holds the download URL of its own blob and the blob is stored
Deletable(e) ==
    /\ entries[e].imageUrl = Url(DownloadUrl(Owner(e), e))
    /\ ObjectPath(Owner(e), e) \in blobs
RecordFault(f) == f.kind \in {"storage", "db"}

\* C11: in a real sweep a storage-delete or database-update failure on one
\* candidate does not stop the loop: every other candidate whose delete
\* and update succeed is cleared, and the call completes with a
\* 'cleanup-completed' summary that carries both counts.
C11_FailureDoesNotStopSweep ==
    [][(runs' # runs /\ RecordFault(last'.fault)) =>
        /\ last'.err = "none" /\ last'.action = "cleanup-completed"
        /\ last'.errorCount >= 1
        /\ last'.deletedCount =
              Cardinality({e \in EntryIds : ~entries[e].imageUrl.isNull
                                             /\ entries'[e].imageUrl.isNull})
        /\ \A i \in DOMAIN last'.files :
              LET e == last'.files[i]
              IN (e # last'.fault.id /\ Deletable(e)) =>
                    /\ entries'[e].imageUrl.isNull
                    /\ ObjectPath(Owner(e), e) \notin blobs']_vars

\* the update of the first candidate failed after its blob was deleted,
\* and the candidate after it has been cleared
C11_Witness ==
    /\ IsRealSweep /\ last.fault = [kind |-> "db", id |-> "e1"]
    /\ last.files = <<"e1", "e2">>
    /\ last.deletedCount = 1 /\ last.errorCount = 1
    /\ ~entries["e1"].imageUrl.isNull /\ entries["e2"].imageUrl.isNull
    /\ blobs \cap {ObjectPath("u1", "e1"), ObjectPath("u1", "e2")} = {}

\* C12: a sweep nulls the image reference of a record only after the
\* storage delete of that record's blob succeeded in the same invocation;
\* a record whose storage delete failed keeps its reference.
C12_ClearedOnlyAfterDelete ==
    [][\A e \in EntryIds :
        /\ (~entries[e].imageUrl.isNull /\ entries'[e].imageUrl.isNull) =>
              /\ Deletable(e)
              /\ ObjectPath(Owner(e), e) \notin blobs'
              /\ last'.fault # [kind |-> "storage", id |-> e]
        /\ (runs' # runs /\ last'.fault = [kind |-> "storage", id |-> e]) =>
              /\ entries'[e] = entries[e]
              /\ ObjectPath(Owner(e), e) \in blobs' <=>
                    ObjectPath(Owner(e), e) \in blobs]_vars

\* the storage delete of the first candidate failed: it keeps reference
\* and blob, and the candidate after it has been cleared
C12_Witness ==
    /\ IsRealSweep /\ last.fault = [kind |-> "storage", id |-> "e1"]
    /\ last.files = <<"e1", "e2">>
    /\ entries["e1"].imageUrl = Url(DownloadUrl("u1", "e1"))
    /\ ObjectPath("u1", "e1") \in blobs
    /\ entries["e2"].imageUrl.isNull /\ ObjectPath("u1", "e2") \notin blobs

\* the step is a sweep that follows a real sweep at once, by the same
\* caller with the same arguments
Rerun == /\ IsRealSweep
         /\ runs' # runs
         /\ last'.uid = last.uid /\ last'.data = last.data

\* C13 as stated: re-running a real sweep immediately after a real sweep,
\* over the same data and with the same cutoff, finds zero candidates and
\* deletes and updates nothing (deletedCount = 0 and errorCount = 0).
C13_RerunFindsNothing ==
    [][(Rerun /\ last'.err = "none") =>
        /\ last'.files = <<>>
        /\ last'.deletedCount = 0 /\ last'.errorCount = 0
        /\ entries' = entries /\ blobs' = blobs]_vars

\* C13, amended: the same when the first sweep cleared every one of its
\* candidates (its deletedCount equals the number of its candidates).
C13_RerunAfterCompleteSweep ==
    [][(Rerun /\ last.deletedCount = Len(last.files)) =>
        /\ entries' = entries /\ blobs' = blobs
        /\ last'.err = "none" =>
              /\ last'.files = <<>>
              /\ last'.deletedCount = 0 /\ last'.errorCount = 0]_vars

\* a second real sweep has found nothing for a caller with two records
\* that an earlier sweep cleared
C13_Witness ==
    /\ runs = 2 /\ IsRealSweep /\ last.uid = "u1" /\ last.files = <<>>
    /\ \A e \in {"e1", "e2"} :
          /\ entries[e].imageUrl.isNull
          /\ entries[e].imageDeletedAt.present

Cleared(e) == entries[e].imageUrl.isNull
Range(seq) == {seq[i] : i \in DOMAIN seq}
ByASweep(outcome) == outcome.op \in {"cleanupUserImages", "cleanupOldImages"}

\* C14: clearing is one-way: in every step of the subsystem (scheduled
\* sweep, on-demand sweep, analyzer, preference write, quota operations)
\* a record whose reference is null keeps a null reference, is not among
\* the candidates a sweep selects, and is not among the documents the
\* analyzer counts.
C14_ClearedStaysCleared ==
    [][\A e \in EntryIds :
          Cleared(e) =>
             /\ entries'[e].imageUrl.isNull
             /\ ByASweep(last') => e \notin Range(last'.files)
             /\ (last'.op = "getStorageUsage" /\ last'.err = "none") =>
                   /\ e \notin Range(last'.docs)
                   /\ last'.usage.totalFiles =
                         Cardinality({x \in EntryIds :
                                        Owner(x) = last'.uid /\ ~Cleared(x)})]_vars

\* the analyzer has counted the records of a user one of whose records a
\* sweep had cleared before
C14_Witness ==
    /\ last.op = "getStorageUsage" /\ last.err = "none"
    /\ last.usage.totalFiles >= 1
    /\ \E e \in EntryIds :
          Owner(e) = last.uid /\ Cleared(e) /\ entries[e].imageDeletedAt.present

RealSweepBy(outcome) ==
    /\ outcome.op = "cleanupUserImages"
    /\ outcome.err = "none"
    /\ outcome.action = "cleanup-completed"
BlobOwner(path) == path[3]

\* C15: a real on-demand sweep for caller u with cutoff c changes only
\* records of u older than c that hold a reference, and on them only the
\* reference and the deletion timestamp; every other record, the nutrition
\* fields, and the records and blobs of other users stay as they were.
C15_SweepChangesOnlyOwnOldImages ==
    [][RealSweepBy(last') =>
          LET c == cutoffDate(last'.at, retentionDays(last'.data))
              Selected(e) == /\ Owner(e) = last'.uid
                             /\ entries[e].createdAt < c
                             /\ ~Cleared(e)
          IN  /\ \A e \in EntryIds :
                    /\ ~Selected(e) => entries'[e] = entries[e]
                    /\ entries'[e].createdAt = entries[e].createdAt
                    /\ entries'[e].calories = entries[e].calories
              /\ \A b \in blobs : BlobOwner(b) # last'.uid => b \in blobs']_vars

ScheduledRun(outcome) == outcome.op = "cleanupOldImages" /\ outcome.err = "none"
OlderThanNinetyDays(e, at) ==
    entries[e].createdAt < cutoffDate(at, RETENTION_DAYS)

\* C16: the scheduled sweep applies the one cutoff now - 90 days to every
\* user: the records it selects are the uncleared records older than
\* ninety days of every listed user whose query succeeded, whatever the
\* users' stored storagePreferences, and it changes no other record.
C16_OneCutoffForEveryUser ==
    [][ScheduledRun(last') =>
          \A e \in EntryIds :
             /\ e \in Range(last'.files) <=>
                   /\ userDocs[Owner(e)].exists
                   /\ OlderThanNinetyDays(e, last'.at)
                   /\ ~Cleared(e)
                   /\ last'.fault # [kind |-> "query", id |-> Owner(e)]
             /\ entries'[e] # entries[e] => e \in Range(last'.files)]_vars

\* the scheduled sweep has cleared a record that the premium policy stored
\* for its owner (365 days) would have kept
C16_Witness ==
    /\ ScheduledRun(last)
    /\ \E e \in Range(last.files) :
          /\ Cleared(e) /\ entries[e].imageDeletedAt = Param(last.at)
          /\ userDocs[Owner(e)].storagePreferences.set
          /\ userDocs[Owner(e)].storagePreferences.retentionDays = 365
          /\ entries[e].createdAt >=
                cutoffDate(last.at, userDocs[Owner(e)].storagePreferences.retentionDays)

AllReturned == \A i \in Sweepers : sweeps[i].pc = "done"
EligibleAtStart(e) ==
    /\ Owner(e) = SweepCaller
    /\ last.entries[e].createdAt < cutoffDate(now, DefaultRetentionDays)
    /\ ~last.entries[e].imageUrl.isNull
StoredAtStart(e) ==
    LET path == filePath(last.entries[e].imageUrl.url)
    IN  path.reached /\ path.value \in last.blobs
\* what one sweep alone makes of the records and blobs of the start
SingleSweep ==
    DeleteFiles([entries |-> last.entries, blobs |-> last.blobs,
                 deletedCount |-> 0, errorCount |-> 0],
                SelectSeq(EntryOrder, EligibleAtStart), NoFault, now)

\* C17: in every interleaving of the steps of concurrent real sweeps of one
\* user with one cutoff, every invocation returns its summary, in the final
\* state every record that was eligible has a null reference, and no
\* record that was not eligible is changed.
C17_ConcurrentSweepsClearEveryEligible ==
    /\ <>AllReturned
    /\ [](AllReturned => \A e \in EntryIds : EligibleAtStart(e) => Cleared(e))
    /\ [](\A e \in EntryIds : ~EligibleAtStart(e) => entries[e] = last.entries[e])

\* C17 (amended): ... in the final state every record that was eligible
\* and whose reference named a stored object has a null reference and its
\* blob is absent, and records and blobs are exactly those a single sweep
\* leaves; no record that was not eligible is changed.
C17_ConcurrentSweepsAsOneSweep ==
    /\ <>AllReturned
    /\ [](AllReturned =>
             /\ entries = SingleSweep.entries
             /\ blobs = SingleSweep.blobs
             /\ \A e \in EntryIds :
                   (EligibleAtStart(e) /\ StoredAtStart(e)) =>
                      /\ Cleared(e)
                      /\ filePath(last.entries[e].imageUrl.url).value \notin blobs)
    /\ [](\A e \in EntryIds : ~EligibleAtStart(e) => entries[e] = last.entries[e])

\* both invocations have returned after racing for one record: one
\* deleted and cleared it, the other's delete was rejected
C17_Witness ==
    /\ AllReturned
    /\ EligibleAtStart("e1") /\ StoredAtStart("e1") /\ Cleared("e1")
    /\ \E i, j \in Sweepers :
          /\ i # j
          /\ sweeps[i].deletedCount >= 1
          /\ sweeps[j].errorCount >= 1

\* C18: after an invocation was killed at any point, a later sweep that
\* runs to completion leaves every record of the user that is older than
\* the cutoff with a null reference; stated for the records whose
\* reference named a stored object when the first sweep started.
C18_LaterSweepHeals ==
    \A i \in Sweepers :
        (sweeps[i].pc = "done" /\ \E h \in 1 .. i - 1 : sweeps[h].pc = "killed") =>
           \A e \in EntryIds :
              (EligibleAtStart(e) /\ StoredAtStart(e)) => Cleared(e)

CallableNames ==
    {"getStorageUsage", "cleanupUserImages", "setStoragePreferences",
     "getRemainingRequests", "analyzeMeal", "analyzeNaturalLanguageMeal"}
AnalysisNames == {"analyzeMeal", "analyzeNaturalLanguageMeal"}

\* C19: each of the six callables, called without a caller identity, fails
\* with 'unauthenticated' before any read or write: whatever the store
\* would answer the error is the same, no record, blob, preference or
\* usage counter changes, no quota check is made and the model is not
\* called.
C19_UnauthenticatedBeforeAnything ==
    /\ [][(last'.op \in CallableNames /\ last'.uid = NoAuth) =>
             /\ last'.err = "unauthenticated"
             /\ UNCHANGED <<usage, calls, admits, entries, blobs, userDocs, faults>>
             /\ last'.op \in AnalysisNames =>
                   ~last'.checked /\ last'.log = <<>>]_vars
    /\ [](/\ \A fault \in StoreFaults :
                /\ getStorageUsage(NoAuth, fault).err = "unauthenticated"
                /\ \A data \in SweepInputs :
                      cleanupUserImages(NoAuth, data, fault).err = "unauthenticated"
                /\ \A data \in PreferenceInputs :
                      setStoragePreferences(NoAuth, data, fault).err = "unauthenticated"
          /\ \A apiKey \in BOOLEAN, txnFails \in BOOLEAN :
                /\ \A imageUrl \in ImageInputs, script \in CreateScripts :
                      LET r == analyzeMeal(NoAuth, imageUrl, apiKey, txnFails, script)
                      IN  r.out = Unauthenticated /\ ~r.checked /\ r.usage = usage
                /\ \A description \in DescInputs, legacyKey \in BOOLEAN,
                      o \in CreateOutcomes :
                      LET r == analyzeNaturalLanguageMeal(NoAuth, description, apiKey,
                                                          legacyKey, txnFails, o)
                      IN  r.out = Unauthenticated /\ ~r.checked /\ r.usage = usage)

\* analyzeMeal has rejected a call without identity while a user's counter
\* had a slot left, and the counter holds what it held
C19_Witness ==
    /\ last.op = "analyzeMeal" /\ last.uid = NoAuth
    /\ last.err = "unauthenticated" /\ last.log = <<>>
    /\ \A u \in Users : \A k \in SweepDayKeys :
          /\ usage[u][k].exists
          /\ usage[u][k].count = DAILY_REQUEST_LIMIT - 1
    /\ blobs = {ObjectPath(Owner(e), e) : e \in EntryIds}

\* C20: setStoragePreferences persists as retentionDays the
\* customRetentionDays of the call when that is provided and positive, and
\* otherwise the retentionDays of the policy resolved for the tier; the
\* persisted retentionDays is positive.
C20_PersistedRetentionDays ==
    (last.op = "setStoragePreferences" /\ last.err = "none") =>
        LET custom == last.data.customRetentionDays
            persisted == userDocs[last.uid].storagePreferences.retentionDays
        IN  /\ persisted = IF custom.present /\ custom.value > 0
                           THEN custom.value
                           ELSE getStorageConfig(last.data.tier).retentionDays
            /\ persisted > 0

PreferenceWrite(outcome) ==
    /\ outcome.op = "setStoragePreferences"
    /\ outcome.uid # NoAuth
    /\ outcome.fault = NoFault

\* C21: a call of setStoragePreferences that the store answers succeeds
\* for every authenticated caller with success = true and the persisted
\* preference, changes nothing of the caller's user record but
\* storagePreferences, and touches no other user's record.
C21_PreferenceWriteMerges ==
    [][PreferenceWrite(last') =>
          /\ last'.err = "none"
          /\ last'.success
          /\ userDocs'[last'.uid].exists
          /\ userDocs'[last'.uid].storagePreferences = last'.preferences
          /\ userDocs'[last'.uid].displayName = userDocs[last'.uid].displayName
          /\ \A u \in Users \ {last'.uid} : userDocs'[u] = userDocs[u]]_vars

TierInputs == {data.tier : data \in PreferenceInputs}
PolicyOf(days, quality, width, size, automatic) ==
    [retentionDays |-> days, imageQuality |-> quality, maxImageWidth |-> width,
     maxFileSize |-> size, enableAutomaticCleanup |-> automatic]
Policy(config) ==
    PolicyOf(config.retentionDays, config.imageQuality, config.maxImageWidth,
             config.maxFileSize, config.enableAutomaticCleanup)
ExpectedPolicy(tier) ==
    IF tier = Param("cost_optimized") THEN PolicyOf(30, 80, 1280, 10485760, TRUE)
    ELSE IF tier = Param("premium") THEN PolicyOf(365, 95, 1920, 20971520, TRUE)
    ELSE IF tier = Param("development") THEN PolicyOf(7, 90, 1920, 10485760, FALSE)
    ELSE PolicyOf(90, 90, 1920, 10485760, TRUE)

\* C22: getStorageConfig yields a policy for every tier argument:
\* cost_optimized 30 days, quality 0.8, width 1280, 10485760 bytes; premium
\* 365, 0.95, 1920, 20971520; development 7, 0.9, 1920, 10485760 with
\* automatic cleanup off; default, an absent tier and an unknown name the
\* default policy 90, 0.9, 1920, 10485760; and a preference write stores
\* the quality and width of the policy of its tier.
C22_PolicyOfEveryTier ==
    /\ \A tier \in TierInputs : Policy(getStorageConfig(tier)) = ExpectedPolicy(tier)
    /\ (last.op = "setStoragePreferences" /\ last.err = "none") =>
          /\ last.preferences.imageQuality = ExpectedPolicy(last.data.tier).imageQuality
          /\ last.preferences.maxImageWidth = ExpectedPolicy(last.data.tier).maxImageWidth

\* a preference write with an unknown tier name has stored the default
\* policy
C22_Witness ==
    /\ last.op = "setStoragePreferences" /\ last.err = "none"
    /\ last.data.tier = Param("bogus")
    /\ last.data.customRetentionDays = UnsetParam
    /\ last.preferences.retentionDays = 90
    /\ last.preferences.imageQuality = 90
    /\ last.preferences.maxImageWidth = 1920

Analyzed == last.op = "getStorageUsage" /\ last.err = "none"
\* the records the analyzer is to count for its caller
Countable == {e \in EntryIds : /\ Owner(e) = last.uid
                               /\ ~entries[e].imageUrl.isNull
                               /\ "createdAt" \in DOMAIN entries[e]}
AgedWithin(lowDays, highDays) ==
    {e \in Countable :
        /\ last.at - entries[e].createdAt > lowDays * MinutesPerDay
        /\ last.at - entries[e].createdAt <= highDays * MinutesPerDay}

\* C23: getStorageUsage counts exactly the caller's records with a
\* non-null reference and a creation time; each is in the one bucket of
\* its age (at most 30 days, over 30 to 90, over 90 to 365, over 365), so
\* the buckets sum to totalFiles; totalSizeBytes is totalFiles x 512000;
\* the oldest and newest dates are the least and greatest creation times
\* counted and are null exactly when nothing is counted.
C23_UsageStatistics ==
    Analyzed =>
        LET stats == last.usage
            times == {entries[e].createdAt : e \in Countable}
        IN  /\ stats.totalFiles = Cardinality(Countable)
            /\ stats.filesByAge.last30Days =
                  Cardinality({e \in Countable :
                      last.at - entries[e].createdAt <= 30 * MinutesPerDay})
            /\ stats.filesByAge.last90Days = Cardinality(AgedWithin(30, 90))
            /\ stats.filesByAge.last365Days = Cardinality(AgedWithin(90, 365))
            /\ stats.filesByAge.older =
                  Cardinality({e \in Countable :
                      last.at - entries[e].createdAt > 365 * MinutesPerDay})
            /\ stats.filesByAge.last30Days + stats.filesByAge.last90Days
                  + stats.filesByAge.last365Days + stats.filesByAge.older
                  = stats.totalFiles
            /\ stats.totalSizeBytes * BlockBytes = stats.totalFiles * 512000
            /\ stats.oldestFileDate.present <=> stats.totalFiles > 0
            /\ stats.newestFileDate.present <=> stats.totalFiles > 0
            /\ stats.totalFiles > 0 =>
                  /\ stats.oldestFileDate.value \in times
                  /\ stats.newestFileDate.value \in times
                  /\ \A t \in times : /\ stats.oldestFileDate.value <= t
                                      /\ t <= stats.newestFileDate.value

\* the analyzer has counted a record exactly 30 days old and one a minute
\* over 365 days old, and has passed over nothing else of the caller
C23_Witness ==
    /\ Analyzed /\ last.uid = "u1"
    /\ last.usage.totalFiles = 2
    /\ last.usage.filesByAge.last30Days = 1
    /\ last.usage.filesByAge.older = 1
    /\ last.usage.oldestFileDate.value < last.usage.newestFileDate.value

Recommended == last.op = "generateStorageRecommendations"
RuleOrder ==
    <<"older-than-1-year", "automatic-cleanup", "cost", "reduce-quality">>
RuleRank(r) == CHOOSE i \in DOMAIN RuleOrder : RuleOrder[i] = r
\* totalFiles x 512000 / 2^30 x 0.026 > 5, divided through by 1024
CostOverFive(stats) == stats.totalFiles * 13 > 5 * (2 ^ 20)
RuleFires(r, stats) ==
    IF r = "older-than-1-year" THEN stats.filesByAge.older > 0
    ELSE IF r = "automatic-cleanup" THEN stats.filesByAge.last365Days > 100
    ELSE IF r = "cost" THEN CostOverFive(stats)
    ELSE stats.totalFiles > 1000

\* C24: each of the four recommendations is in the list exactly when its
\* own rule fires (files over a year old; more than 100 files of 91 to 365
\* days; estimated monthly cost over 5; more than 1000 files), once, and
\* the ones present keep the order of the rules.
C24_RecommendationRules ==
    Recommended =>
        LET recs == last.recommendations
        IN  /\ \A r \in Range(RuleOrder) :
                  (r \in Range(recs)) <=> RuleFires(r, last.usage)
            /\ Range(recs) \subseteq Range(RuleOrder)
            /\ \A i, j \in DOMAIN recs :
                  i < j => RuleRank(recs[i]) < RuleRank(recs[j])

\* 101 files of 91 to 365 days and 1001 files in all, none over a year
\* old: the second and fourth rules fire, the first and third do not
C24_Witness ==
    /\ Recommended
    /\ last.usage.filesByAge.older = 0
    /\ last.usage.filesByAge.last365Days = 101
    /\ last.usage.totalFiles = 1001
    /\ last.recommendations = <<"automatic-cleanup", "reduce-quality">>

C24_WitnessCost ==
    /\ Recommended
    /\ last.usage.totalFiles = 403299
    /\ "cost" \in Range(last.recommendations)

\* the last operation was a quota check of this user and day that admitted,
\* called directly or by an analysis request
AdmittedCheck(outcome, u, k) ==
    /\ \/ outcome.op = "checkAndIncrementUsage"
       \/ outcome.op \in AnalysisNames /\ outcome.checked
    /\ outcome.ret
    /\ outcome.uid = u
    /\ outcome.key = k
    /\ k = getDateKeyForUser(now, tzOffset)

MealDeletion ==
    /\ last.op = "handleDeleteMeal"
    /\ last.uid # NoAuth
    /\ last.fault.kind \notin {"get", "db"}
HadImage(entry) == entry # NoEntry /\ Truthy(entry.imageUrl)
Position(lg, call) == CHOOSE i \in DOMAIN lg : lg[i] = call

\* C26: deleting a meal from the dashboard deletes the meal document
\* whether or not the deletion of its image succeeds: a storage failure
\* raises no alert and the document is still deleted; a meal without an
\* image triggers no storage deletion; the image deletion, when attempted,
\* comes before the document deletion.
C26_MealDeletedDespiteImage ==
    MealDeletion =>
        /\ entries[last.mealId] = NoEntry
        /\ ~last.alerted
        /\ "deleteDoc" \in Range(last.log)
        /\ ~HadImage(last.before) => "deleteObject" \notin Range(last.log)
        /\ ~HadImage(last.before) => blobs = last.blobs
        /\ "deleteObject" \in Range(last.log) =>
              Position(last.log, "deleteObject") < Position(last.log, "deleteDoc")

\* the deletion of the image failed in storage and the meal is gone
C26_Witness ==
    /\ MealDeletion
    /\ last.fault.kind = "storage"
    /\ "deleteObject" \in Range(last.log)
    /\ HadImage(last.before)
    /\ blobs = last.blobs
    /\ ObjectPath("u1", last.mealId) \in blobs
    /\ entries[last.mealId] = NoEntry

\* an authenticated request was rejected for its input
MalformedRejected ==
    /\ last.op \in AnalysisNames
    /\ last.uid # NoAuth
    /\ last.err = "invalid-argument"

\* C27: an authenticated analysis request rejected for malformed input (no
\* or empty imageUrl; no, empty or blank description, or one of more than
\* 100 words) makes no call to the external model and leaves the caller's
\* usage counter as it was before the request.
C27_MalformedInputCostsNothing ==
    MalformedRejected =>
        /\ "model" \notin Range(last.log)
        /\ CurrentCount(usage[last.uid][last.key]) = last.pre

\* the users the run listed, and the records of a user the run is to select
Listed == Range(usersSnapshot)
Selected(u) == Range(filesToDelete(u, cutoffFor(u)))
\* the user in whose entries the run met its failure
FailedUser(f) ==
    IF f.kind = "query" THEN f.id
    ELSE IF f.kind \in {"storage", "db"} THEN Owner(f.id)
    ELSE NoAuth

\* C28: in the scheduled sweep a failure while querying or processing one
\* user's entries is counted in errorCount and does not stop the run:
\* every other listed user is still processed, so each of their selected
\* records is reached and its blob, when stored, is deleted; the run fails
\* as a whole only when listing the users fails.
C28_UserFailureIsolated ==
    [][last'.op = "cleanupOldImages" /\ runs' = runs + 1 =>
          /\ last'.err # "none" <=> last'.fault.kind = "users"
          /\ last'.err # "none" => entries' = entries /\ blobs' = blobs
          /\ last'.err = "none" =>
                /\ FailedUser(last'.fault) # NoAuth => last'.errorCount >= 1
                /\ \A u \in Listed \ {FailedUser(last'.fault)} :
                      \A e \in Selected(u) :
                          /\ e \in Range(last'.files)
                          /\ Deletable(e) => ObjectPath(u, e) \notin blobs']_vars

\* the query of the first user's entries failed and the second user's old
\* image was deleted all the same
C28_Witness ==
    /\ ScheduledRun(last)
    /\ last.fault = [kind |-> "query", id |-> "u1"]
    /\ last.errorCount = 1
    /\ last.deletedCount = 1
    /\ last.files = <<"e3">>
    /\ Cleared("e3")
    /\ ~Cleared("e1")

\* a button of the dialog was pressed and no entry was saved
AnalysisNotSaved ==
    /\ last.op \in {"handlePhotoFollowupSave", "handlePhotoFollowupSkip"}
    /\ ~last.saved
Referenced(path) ==
    \E e \in EntryIds :
        /\ entries[e] # NoEntry
        /\ ~entries[e].imageUrl.isNull
        /\ imagePath(entries[e].imageUrl.url) = [threw |-> FALSE, value |-> path]

\* C29: after a photo upload, every path on which the analysis does not
\* end in a saved entry (analysis rejected, quota exhausted, invalid
\* response, entry write failing), with the description supplied or
\* skipped, attempts to delete the uploaded image; when storage answers,
\* the image is then not left in storage without an entry referencing it.
C29_UnsavedPhotoDeleted ==
    AnalysisNotSaved =>
        /\ "deleteObject" \in Range(last.log)
        /\ last.fault.kind # "storage" =>
              \/ imagePath(last.photo.url).value \notin blobs
              \/ Referenced(imagePath(last.photo.url).value)

RetryEnded == last.pc \in {"returned", "thrown"}
\* the calls made so far that failed with an error the loop retries
RetriedBefore(n) ==
    \A i \in 1 .. n : /\ IsRetryable(last.script[i])
                       /\ ~IsHttpsError(last.script[i])
RetryBounds ==
    /\ last.fnCalls <= maxRetries + 1
    /\ last.fnCalls <= 4
    /\ \A k \in DOMAIN last.delays : last.delays[k] = baseDelay * (2 ^ (k - 1))
    /\ Len(last.delays) <= 3
    /\ RetriedBefore(Len(last.delays))
RetryOutcome ==
    RetryEnded =>
        /\ last.out = last.script[last.fnCalls]
        /\ Len(last.delays) = last.fnCalls - 1
        /\ last.pc = "returned" <=> last.out = "valid"
        /\ last.pc = "thrown" =>
              \/ IsHttpsError(last.out)
              \/ ~IsRetryable(last.out)
              \/ last.fnCalls = maxRetries + 1
        /\ LET r == retryWithBackoff(last.script)
           IN  /\ r.fnCalls = last.fnCalls
               /\ r.threw = (last.pc = "thrown")
               /\ r.out = last.out
               /\ r.delays = last.delays

\* C30: retryWithBackoff always terminates; it calls the wrapped function
\* at most maxRetries + 1 = 4 times, returns the first successful result,
\* rethrows at once an HttpsError or an error that is not a retryable
\* network error, rethrows the last attempt's error after the fourth
\* call, and waits baseDelay x 2^k before retry k (k = 0, 1, 2).
C30_RetryTerminates ==
    /\ <>RetryEnded
    /\ [](RetryBounds /\ RetryOutcome)

\* four calls failed with retryable errors, after waits of 1000, 2000 and
\* 4000, and the error of the fourth was thrown
C30_Witness ==
    /\ last.op = "retryWithBackoff"
    /\ last.pc = "thrown"
    /\ last.fnCalls = 4
    /\ last.delays = <<1000, 2000, 4000>>
    /\ last.out = "gateway"
    /\ last.script[1] = "timeout"

====
